---- MODULE Spec2Model ----
(***************************************************************************)
(* A model of rucksdb: the arena-backed skip list (db/skiplist.rs), the    *)
(* memtable over it (db/memtable.rs), the internal key format              *)
(* (db/dbformat.rs), the open/recover driver with the CURRENT file         *)
(* (db.rs, db/filename.rs, util/env.rs) and the boundary-file expansion of *)
(* compaction inputs (db/version_set.rs).                                  *)
(*                                                                         *)
(* Each component has its own specification over its own variables; the    *)
(* variables of the other components are left unchanged by it.             *)
(***************************************************************************)
EXTENDS Integers, Sequences, FiniteSets, TLC

VARIABLES
    list,        \* SkipList<Key>: [head, nodes, max_height]
    inserted,    \* the keys whose insert has returned (the tests' `keys` / `current_`)
    last_op,     \* the last completed sequential skip-list call and its result
    writer,      \* the single writer thread's position inside insert
    reader,      \* a reader thread's position inside read_step
    table_,      \* MemTable::table_, the skip list of encoded entries
    mem_adds,    \* the MemTable::add calls made so far, as (seq, type, key, value)
    mem_result,  \* the last MemTable::get call and what it returned
    disk,        \* the files of the database directory, as written and as durable
    db,          \* the DB / the set_current_file call: options, db_lock_, position
    calls,       \* the Env calls made so far, in order
    ik,          \* InternalKeyComparator::compare: three keys and the results
    vs,          \* VersionSet: next_file_number_ and the numbers returned
    bnd,         \* add_boundary_inputs: its arguments and its position
    ff,          \* find_file / some_file_overlaps_range: arguments and position
    ve,          \* a VersionEdit under construction, its encoding and decoding
    wr,          \* log::Writer: dest_, block_offset_ and the add_record in progress
    vi,          \* util/coding.rs: values, their varint encoding and its decoding
    mk,          \* util/crc32c.rs: a crc, its mask and the unmask of that
    rng,         \* util/random.rs: Random::seed_ and the values next() returned
    odb          \* DB::open after recover: s, the edit, logfile_, log_ and mem_

slVars == <<list, inserted, last_op, writer, reader>>

memVars == <<table_, mem_adds, mem_result>>

dbVars == <<disk, db, calls>>

bndVars == <<bnd>>

ffVars == <<ff>>

veVars == <<ve>>

lgVars == <<wr>>

ikVars == <<ik>>

vsVars == <<vs>>

utVars == <<vi, mk, rng, odb>>

vars == <<list, inserted, last_op, writer, reader, table_, mem_adds, mem_result,
          disk, db, calls, bnd, ff, ve, wr, ik, vs, vi, mk, rng, odb>>

(***************************************************************************)
(* Bounds of the model.                                                    *)
(***************************************************************************)
\* keys of the sequential skip-list specification are 1..MaxKey
MaxKey == 3
\* random_height draws from 1..MaxDrawnHeight and MAX_HEIGHT itself
MaxDrawnHeight == 3
\* keys of the concurrent skip-list specification are 1..MaxConcKey
MaxConcKey == 3
\* heights the writer draws in the concurrent specification are 1..MaxConcHeight
MaxConcHeight == 2
\* sequence numbers of the memtable specification are 1..MaxSeq
MaxSeq == 2
\* the memtable specification makes at most MaxAdds calls of add
MaxAdds == 3
\* manifest numbers on disk and passed to set_current_file are 1..MaxDescriptor
MaxDescriptor == 2
\* add_boundary_inputs is given at most MaxLevelFiles level files ...
MaxLevelFiles == 2
\* ... and at most MaxInputs of them as compaction inputs
MaxInputs == 2
\* find_file and some_file_overlaps_range are given at most MaxFiles files
MaxFiles == 2
\* a VersionEdit is built by at most MaxSetterCalls setter calls ...
MaxSetterCalls == 2
\* ... and the encodings of edits built by at most MaxTamperedCalls calls
\* are also cut short or extended before they are decoded
MaxTamperedCalls == 1
MaxRecords == 2
MaxIterHeight == 2
MaxInitialFileNumber == 30
MaxAllocations == 4

(***************************************************************************)
(* util/coding.rs.  Bytes are 0..255; byte strings are sequences of bytes. *)
(* Indices into a byte string are 0-based as in the source.                *)
(***************************************************************************)
B == 128

\* the value of an expression, bound once: Only({f(x) : x \in {e}}) is f(e)
Only(S) == CHOOSE x \in S : TRUE

\* `x as u8`
AsU8(x) == x % 256

\* `(x | B) as u8`
OrB(x) == 128 + (x % 128)

\* encode_varint32 (encode_varint32_to appends the same bytes)
EncodeVarint32(v) ==
    IF v < 128 THEN <<AsU8(v)>>
    ELSE IF v < 16384 THEN <<OrB(v), AsU8(v \div 128)>>
    ELSE IF v < 2097152 THEN <<OrB(v), OrB(v \div 128), AsU8(v \div 16384)>>
    ELSE IF v < 268435456
         THEN <<OrB(v), OrB(v \div 128), OrB(v \div 16384), AsU8(v \div 2097152)>>
         ELSE <<OrB(v), OrB(v \div 128), OrB(v \div 16384), OrB(v \div 2097152),
                AsU8(v \div 268435456)>>

\* varint_length
RECURSIVE VarintLength(_)
VarintLength(v) == IF v >= B THEN 1 + VarintLength(v \div 128) ELSE 1

\* 1 << shift, for the shifts 0, 7, 14, 21, 28 of the varint32 decoder
Shl(shift) ==
    CASE shift = 0 -> 1
      [] shift = 7 -> 128
      [] shift = 14 -> 16384
      [] shift = 21 -> 2097152
      [] shift = 28 -> 268435456

\* `byte << shift` in a u32, bits 0..30: the shift by 28 drops all but the
\* low four bits of the byte, and the fourth of them is bit 31
ShlLow(byte, shift) ==
    IF shift = 28 THEN (byte % 8) * Shl(28) ELSE byte * Shl(shift)

\* bit 31 of `byte << shift` in a u32
ShlTop(byte, shift) == IF shift = 28 THEN (byte \div 8) % 2 ELSE 0

\* get_varint32_idx_fallback: the loop, (-1, 0) when no final byte is found.
\* The u32 result is value (its bits 0..30) and top (its bit 31).
RECURSIVE GetVarint32Loop(_, _, _, _)
GetVarint32Loop(bytes, idx, shift, result) ==
    IF shift <= 28 /\ idx < Len(bytes)
    THEN LET byte == bytes[idx + 1] IN
         IF byte >= B
         THEN GetVarint32Loop(bytes, idx + 1, shift + 7,
                              result + ShlLow(byte % B, shift))
         ELSE [next |-> idx + 1, value |-> result + ShlLow(byte, shift),
               top |-> ShlTop(byte, shift)]
    ELSE [next |-> -1, value |-> 0, top |-> 0]

GetVarint32IdxFallback(bytes, idx) == GetVarint32Loop(bytes, idx, 0, 0)

\* get_varint32_idx: the one-byte fast path, else the fallback
GetVarint32Idx(bytes, idx) ==
    IF idx < Len(bytes) /\ bytes[idx + 1] < B
    THEN [next |-> idx + 1, value |-> bytes[idx + 1], top |-> 0]
    ELSE GetVarint32IdxFallback(bytes, idx)

\* encode_fixed64: u64::to_le_bytes, least significant byte first
RECURSIVE ToLeBytes(_, _)
ToLeBytes(v, n) == IF n = 0 THEN <<>> ELSE <<v % 256>> \o ToLeBytes(v \div 256, n - 1)

EncodeFixed64(v) == ToLeBytes(v, 8)

\* decode_fixed64: u64::from_le_bytes
RECURSIVE FromLeBytes(_)
FromLeBytes(bytes) ==
    IF bytes = <<>> THEN 0 ELSE bytes[1] + 256 * FromLeBytes(Tail(bytes))

DecodeFixed64(bytes) == FromLeBytes(bytes)

\* bytes[from..to) of the source's 0-based slices
Range(bytes, from, to) == SubSeq(bytes, from + 1, to)

(***************************************************************************)
(* slice.rs, util/comparator.rs, db/dbformat.rs                            *)
(***************************************************************************)
\* BytewiseComparator::compare: unsigned lexicographic order of the bytes
RECURSIVE BytewiseCompare(_, _)
BytewiseCompare(a, b) ==
    IF a = <<>> /\ b = <<>> THEN "Equal"
    ELSE IF a = <<>> THEN "Less"
    ELSE IF b = <<>> THEN "Greater"
    ELSE IF a[1] < b[1] THEN "Less"
    ELSE IF a[1] > b[1] THEN "Greater"
    ELSE BytewiseCompare(Tail(a), Tail(b))

TypeDeletion == 0
TypeValue == 1
ValueTypeForSeek == TypeValue

\* pack_sequence_and_type: (seq << 8) | t
PackSequenceAndType(seq, t) == seq * 256 + t

\* append_internal_key / InternalKey::new_from
InternalKeyFrom(user_key, seq, t) ==
    user_key \o EncodeFixed64(PackSequenceAndType(seq, t))

\* extract_user_key
ExtractUserKey(ikey) == Range(ikey, 0, Len(ikey) - 8)

\* the trailing tag of an internal key, decoded
ExtractTag(ikey) == DecodeFixed64(Range(ikey, Len(ikey) - 8, Len(ikey)))

\* the eight tag bytes of an internal key, as decode_fixed64_bytes reads them
TagBytes(ikey) == Range(ikey, Len(ikey) - 8, Len(ikey))

\* the order of two u64 given as their 8 little-endian bytes, decided from
\* byte i (the most significant not yet compared) downwards
RECURSIVE U64CompareFrom(_, _, _)
U64CompareFrom(a, b, i) ==
    IF i = 0 THEN "Equal"
    ELSE IF a[i] > b[i] THEN "Greater"
    ELSE IF a[i] < b[i] THEN "Less"
    ELSE U64CompareFrom(a, b, i - 1)

\* the tags compared as byte strings, first byte first
U64Compare_Bytewise(a, b) == BytewiseCompare(a, b)

\* anum compared with bnum, both decoded from 8 bytes
U64Compare(a, b) == U64CompareFrom(a, b, 8)

\* a comparator ordering equal user keys by ascending tag, oldest entry first
InternalKeyCompare_TagAscending(a, b) ==
    LET r == BytewiseCompare(ExtractUserKey(a), ExtractUserKey(b)) IN
    IF r = "Equal"
    THEN LET c == U64Compare(TagBytes(a), TagBytes(b))
         IN  IF c = "Less" THEN "Less"
             ELSE IF c = "Greater" THEN "Greater"
             ELSE r
    ELSE r

\* InternalKeyComparator::compare: user key ascending, then tag descending
InternalKeyCompare(a, b) ==
    LET r == BytewiseCompare(ExtractUserKey(a), ExtractUserKey(b)) IN
    IF r = "Equal"
    THEN LET c == U64Compare(TagBytes(a), TagBytes(b))
         IN  IF c = "Greater" THEN "Less"
             ELSE IF c = "Less" THEN "Greater"
             ELSE r
    ELSE r

\* LookupKey::new: varint32(len + 8), the user key, the tag with the seek type
LookupKeyNew(user_key, seq) ==
    [rep_   |-> EncodeVarint32(Len(user_key) + 8) \o user_key
                \o EncodeFixed64(PackSequenceAndType(seq, ValueTypeForSeek)),
     start_ |-> VarintLength(Len(user_key) + 8)]

\* LookupKey::memtable_key
MemtableKey(lk) == lk.rep_

\* LookupKey::user_key
LookupUserKey(lk) == Range(lk.rep_, lk.start_, Len(lk.rep_) - 8)

(***************************************************************************)
(* db/memtable.rs: the entry comparator                                    *)
(***************************************************************************)
\* memtable.rs get_length_prefixed_slice: varint32 length, then that many bytes
MemGetLengthPrefixedSlice(data) ==
    LET r == GetVarint32Idx(data, 0) IN Range(data, r.next, r.next + r.value)

\* KeyComparator::compare: the internal keys inside two encoded entries
KeyComparatorCompare(left, right) ==
    InternalKeyCompare(MemGetLengthPrefixedSlice(left), MemGetLengthPrefixedSlice(right))

(***************************************************************************)
(* db/skiplist.rs                                                          *)
(***************************************************************************)
MAX_HEIGHT == 12

\* NullableNodePtr: None, the head, or the index of a node in allocation order
None == -1
head_ == 0

\* the comparators a skip list is instantiated with: Key(u64) of the tests
\* (PartialOrd on integers) and the memtable's KeyComparator
KeyLess(cmp, a, b) ==
    IF cmp = "key" THEN a < b ELSE KeyComparatorCompare(a, b) = "Less"

KeyEq(cmp, a, b) ==
    IF cmp = "key" THEN a = b ELSE KeyComparatorCompare(a, b) = "Equal"

\* SkipList::new_node: `height` forward pointers, all None
NewNode(key, height) ==
    [key |-> key, next |-> [i \in 1..height |-> None]]

\* SkipList::new_in: the head has MAX_HEIGHT pointers, max_height_ = 1
NewList ==
    [head |-> [i \in 1..MAX_HEIGHT |-> None], nodes |-> <<>>, max_height |-> 1]

\* Node::next(n): level n is 0-based as in the source
NodeNext(l, x, n) ==
    IF x = head_ THEN l.head[n + 1] ELSE l.nodes[x].next[n + 1]

\* Node::set_next(n, y)
SetNext(l, x, n, y) ==
    IF x = head_
    THEN [l EXCEPT !.head[n + 1] = y]
    ELSE [l EXCEPT !.nodes[x].next[n + 1] = y]

NodeKey(l, x) == l.nodes[x].key

GetMaxHeight(l) == l.max_height

\* a slip in key_is_after_node: a node with an equal key counts as before the key
KeyIsAfterNode_OrEqual(cmp, l, key, n) ==
    IF n # None THEN ~KeyLess(cmp, key, NodeKey(l, n)) ELSE FALSE

\* key_is_after_node: None is considered infinite
KeyIsAfterNode(cmp, l, key, n) ==
    IF n # None THEN KeyLess(cmp, NodeKey(l, n), key) ELSE FALSE

\* the `prev` vector insert, contains and seek allocate: MAX_HEIGHT times None
EmptyPrev == [i \in 1..MAX_HEIGHT |-> None]

\* a descent that gives up at a level above 0 whose pointer is None
RECURSIVE FindGreaterOrEqualFrom_StopsAtNone(_, _, _, _, _, _)
FindGreaterOrEqualFrom_StopsAtNone(cmp, l, key, x, level, prev) ==
    LET next == NodeNext(l, x, level) IN
    IF KeyIsAfterNode(cmp, l, key, next)
    THEN FindGreaterOrEqualFrom_StopsAtNone(cmp, l, key, next, level, prev)
    ELSE LET prev1 == [prev EXCEPT ![level + 1] = x] IN
         IF level = 0 \/ next = None
         THEN [node |-> next, prev |-> prev1]
         ELSE FindGreaterOrEqualFrom_StopsAtNone(cmp, l, key, x, level - 1, prev1)

\* the loop of find_greater_or_equal from node x at `level`
RECURSIVE FindGreaterOrEqualFrom(_, _, _, _, _, _)
FindGreaterOrEqualFrom(cmp, l, key, x, level, prev) ==
    LET next == NodeNext(l, x, level) IN
    IF KeyIsAfterNode(cmp, l, key, next)
    THEN FindGreaterOrEqualFrom(cmp, l, key, next, level, prev)
    ELSE LET prev1 == [prev EXCEPT ![level + 1] = x] IN
         IF level = 0
         THEN [node |-> next, prev |-> prev1]
         ELSE FindGreaterOrEqualFrom(cmp, l, key, x, level - 1, prev1)

FindGreaterOrEqual(cmp, l, key) ==
    FindGreaterOrEqualFrom(cmp, l, key, head_, GetMaxHeight(l) - 1, EmptyPrev)

\* a raise that starts one level above max_height
RaisePrev_SkipsLevel(l, prev, height) ==
    IF height > GetMaxHeight(l)
    THEN [i \in 1..MAX_HEIGHT |->
            IF i - 1 > GetMaxHeight(l) /\ i - 1 < height THEN head_ ELSE prev[i]]
    ELSE prev

\* insert, lines 63-75: levels max_height..height-1 get the head as predecessor
RaisePrev(l, prev, height) ==
    IF height > GetMaxHeight(l)
    THEN [i \in 1..MAX_HEIGHT |->
            IF i - 1 >= GetMaxHeight(l) /\ i - 1 < height THEN head_ ELSE prev[i]]
    ELSE prev

RaiseMaxHeight(l, height) ==
    IF height > GetMaxHeight(l) THEN [l EXCEPT !.max_height = height] ELSE l

\* a slip in the splice: the new node's pointer is left as new_node made it
SpliceInit_Skipped(l, x, i, p) == l

\* insert, line 80: x.set_next(i, p.next(i))
SpliceInit(l, x, i, p) == SetNext(l, x, i, NodeNext(l, p, i))

\* a publish that clears the new node's own pointer as it links the node
SplicePublish_DropsSuccessor(l, x, i, p) == SetNext(SetNext(l, x, i, None), p, i, x)

\* a publish that always links the new node right behind the head
SplicePublish_BehindHead(l, x, i, p) == SetNext(l, head_, i, x)

\* insert, line 81: p.set_next(i, Some(x))
SplicePublish(l, x, i, p) == SetNext(l, p, i, x)

\* insert, lines 78-82: the splice loop from level i upward
RECURSIVE SpliceFrom(_, _, _, _, _)
SpliceFrom(l, x, prev, i, height) ==
    IF i >= height THEN l
    ELSE SpliceFrom(SplicePublish(SpliceInit(l, x, i, prev[i + 1]), x, i, prev[i + 1]),
                    x, prev, i + 1, height)

\* SkipList::insert with the height random_height returned
InsertKey(cmp, l, key, height) ==
    LET r     == FindGreaterOrEqual(cmp, l, key)
        prev  == RaisePrev(l, r.prev, height)
        l1    == RaiseMaxHeight(l, height)
        x     == Len(l1.nodes) + 1
        l2    == [l1 EXCEPT !.nodes = Append(@, NewNode(key, height))]
    IN  SpliceFrom(l2, x, prev, 0, height)

\* SkipList::contains
ContainsKey(cmp, l, key) ==
    LET x == FindGreaterOrEqual(cmp, l, key).node IN
    IF x # None THEN KeyEq(cmp, NodeKey(l, x), key) ELSE FALSE

\* random_height: 1..MAX_HEIGHT; the model draws the low heights and the cap
RandomHeights == (1..MaxDrawnHeight) \cup {MAX_HEIGHT}

IdleWriter == [pc |-> "idle"]
IdleReader == [pc |-> "idle"]

(***************************************************************************)
(* db/memtable.rs                                                          *)
(***************************************************************************)
\* MemTable::add, lines 46-57: the encoded entry
EncodeEntry(seq, type, key, value) ==
    EncodeVarint32(Len(key) + 8) \o key
    \o EncodeFixed64(PackSequenceAndType(seq, type))
    \o EncodeVarint32(Len(value)) \o value

\* MemTable::add with the height the table's random_height returned
MemTableAdd(t, seq, type, key, value, height) ==
    InsertKey("memkey", t, EncodeEntry(seq, type, key, value), height)

\* MemTable::get: (value, status, found); the Option<Vec<u8>> value is <<>>
\* for None and <<v>> for Some(v)
MemTableGet(t, lk) ==
    LET x == FindGreaterOrEqual("memkey", t, MemtableKey(lk)).node
        miss == [value |-> <<>>, status |-> "None", found |-> FALSE]
    IN  IF x # None
        THEN LET entry == NodeKey(t, x)
                 r     == GetVarint32Idx(entry, 0)
                 next  == r.next
                 n     == r.value
             IN  IF BytewiseCompare(Range(entry, next, next + n - 8),
                                    LookupUserKey(lk)) = "Equal"
                 THEN LET tag == DecodeFixed64(Range(entry, next + n - 8, next + n))
                          vt  == tag % 256
                      IN  IF vt = TypeValue
                          THEN [value |-> <<MemGetLengthPrefixedSlice(
                                                Range(entry, next + n, Len(entry)))>>,
                                status |-> "None", found |-> TRUE]
                          ELSE IF vt = TypeDeletion
                          THEN [value |-> <<>>, status |-> "NotFound", found |-> TRUE]
                          ELSE miss
                 ELSE miss
        ELSE miss

(***************************************************************************)
(* MemTable::add and MemTable::get on one memtable.                        *)
(***************************************************************************)
\* the user keys of the model: "a" and "ab"
UserKeys == {<<97>>, <<97, 98>>}

SeqNumbers == 1..MaxSeq

\* Random::next: seed_ = (seed_ * 16807) % (2^31 - 1).  The code forms the
\* product in 64 bits; here the same residue is formed without leaving 32
\* bits: 2^31 - 1 = 16807 * 127773 + 2836.
RandomNext(seed) ==
    LET t == 16807 * (seed % 127773) - 2836 * (seed \div 127773)
    IN  IF t > 0 THEN t ELSE t + 2147483647

\* random_height from generator state seed: <<height, generator state after>>
RECURSIVE RandomHeightFrom(_, _)
RandomHeightFrom(seed, height) ==
    LET n == RandomNext(seed)
    IN  IF height < MAX_HEIGHT /\ n % 4 = 0
        THEN RandomHeightFrom(n, height + 1)
        ELSE <<height, n>>

\* the generator of a new list: Random::new(0xdeadbeef), whose seed_ is
\* 0xdeadbeef & 0x7fffffff
RECURSIVE RndAfter(_)
RndAfter(inserts) ==
    IF inserts = 0 THEN 1588444911
    ELSE RandomHeightFrom(RndAfter(inserts - 1), 1)[2]

\* the height random_height returns for the insert into a list of n nodes
MemHeight(n) == RandomHeightFrom(RndAfter(n), 1)[1]

\* the value written with an add: the user key and the sequence number
ValueOf(key, seq) == key \o <<seq>>

SkipListUnused ==
    /\ list = NewList
    /\ inserted = {}
    /\ last_op = [op |-> "none"]
    /\ writer = IdleWriter
    /\ reader = IdleReader

MemTableUnused ==
    /\ table_ = NewList
    /\ mem_adds = {}
    /\ mem_result = [op |-> "none"]

DbUnused ==
    /\ disk = <<>>
    /\ db = <<>>
    /\ calls = <<>>

BoundaryUnused == bnd = <<>>

FindFileUnused == ff = <<>>

VersionEditUnused == ve = <<>>

LogUnused == wr = <<>>

CompareUnused == ik = <<>>

VersionSetUnused == vs = <<>>

UtilUnused == vi = <<>> /\ mk = <<>> /\ rng = <<>> /\ odb = <<>>

\* the components a specification of one other component leaves unused
OthersUnused ==
    /\ FindFileUnused /\ VersionEditUnused /\ LogUnused
    /\ CompareUnused /\ VersionSetUnused /\ UtilUnused

MemInit == SkipListUnused /\ MemTableUnused /\ DbUnused /\ BoundaryUnused /\ OthersUnused

\* mem.add(seq, type, key, value) with a (key, seq) not added before
MemAdd ==
    /\ Cardinality(mem_adds) < MaxAdds
    /\ \E key \in UserKeys, seq \in SeqNumbers, type \in {TypeDeletion, TypeValue} :
         /\ ~ \E a \in mem_adds : a.key = key /\ a.seq = seq
         /\ LET value == IF type = TypeValue THEN ValueOf(key, seq) ELSE <<>> IN
            /\ table_' = MemTableAdd(table_, seq, type, key, value,
                                     MemHeight(Len(table_.nodes)))
            /\ mem_adds' = mem_adds \cup
                              {[seq |-> seq, type |-> type, key |-> key, value |-> value]}
         /\ mem_result' = [op |-> "add"]
    /\ UNCHANGED <<slVars, dbVars, bndVars, ffVars, veVars, lgVars, ikVars, vsVars, utVars>>

\* mem.get(&LookupKey::new(key, seq))
MemGet ==
    /\ \E key \in UserKeys, seq \in 0..(MaxSeq + 1) :
         mem_result' = [op |-> "get", key |-> key, seq |-> seq,
                        ret |-> MemTableGet(table_, LookupKeyNew(key, seq))]
    /\ UNCHANGED <<table_, mem_adds, slVars, dbVars, bndVars, ffVars, veVars, lgVars, ikVars, vsVars, utVars>>

MemNext == MemAdd \/ MemGet

SpecMemTable == MemInit /\ [][MemNext]_vars

\* the adds for user key k with a sequence number <= s
AddsVisible(k, s) == {a \in mem_adds : a.key = k /\ a.seq <= s}

Keys == 1..MaxKey

SlInit == SkipListUnused /\ MemTableUnused /\ DbUnused /\ BoundaryUnused /\ OthersUnused

\* list.insert(&key) for a key not yet in the list
SlInsert ==
    \E key \in Keys \ inserted, h \in RandomHeights :
        /\ list' = InsertKey("key", list, key, h)
        /\ inserted' = inserted \cup {key}
        /\ last_op' = [op |-> "insert", key |-> key, height |-> h]
        /\ UNCHANGED <<writer, reader, memVars, dbVars, bndVars, ffVars, veVars, lgVars, ikVars, vsVars, utVars>>

\* list.contains(&key) for any key, present or not
SlContains ==
    \E key \in 0..(MaxKey + 1) :
        /\ last_op' = [op |-> "contains", key |-> key,
                       ret |-> ContainsKey("key", list, key)]
        /\ UNCHANGED <<list, inserted, writer, reader, memVars, dbVars, bndVars, ffVars, veVars, lgVars, ikVars, vsVars, utVars>>

SlNext == SlInsert \/ SlContains

SpecSkipList == SlInit /\ [][SlNext]_vars

\* C2: after any sequence of inserts of distinct keys with any heights,
\* contains(k) returns true exactly when k was inserted; on the empty list it
\* returns false for every key.
C2_ContainsIffInserted ==
    last_op.op = "contains" => (last_op.ret <=> last_op.key \in inserted)

\* contains found the middle key of a full list whose nodes have different heights
C2_Witness ==
    /\ last_op.op = "contains"
    /\ last_op.ret
    /\ inserted = Keys
    /\ last_op.key \notin {1, MaxKey}
    /\ \E a, b \in 1..Len(list.nodes) :
          Len(list.nodes[a].next) < Len(list.nodes[b].next)

\* every level below h has a predecessor: the node the descent stopped at
\* below max_height, the head from max_height up
SplicePrevSet(l, key, h) ==
    \A found \in {FindGreaterOrEqual("key", l, key).prev} :
    \A prev \in {RaisePrev(l, found, h)} :
    \A i \in 0..(h - 1) :
        /\ prev[i + 1] # None
        /\ prev[i + 1] \in {head_} \cup 1..Len(l.nodes)
        /\ i < GetMaxHeight(l) => prev[i + 1] = found[i + 1]
        /\ i >= GetMaxHeight(l) => prev[i + 1] = head_

\* C38: in SkipList::insert, for every list state, every key not already
\* present and every height h in 1..12, prev[i] holds a node for every level
\* i < h at splice time (found by the descent below max_height, the head from
\* max_height up to h), so the splice never unwraps an empty predecessor;
\* max_height stays in 1..12 and never decreases.
C38_SplicePrevSet ==
    /\ [](/\ \A key \in Keys \ inserted, h \in 1..MAX_HEIGHT :
               SplicePrevSet(list, key, h)
          /\ list.max_height \in 1..MAX_HEIGHT)
    /\ [][list'.max_height >= list.max_height]_vars

\* an insert of the full height raised max_height over a list of two nodes,
\* and a key is left to insert
C38_Witness ==
    /\ last_op.op = "insert"
    /\ last_op.height = MAX_HEIGHT
    /\ list.max_height = MAX_HEIGHT
    /\ Len(list.nodes) = 2
    /\ \E n \in 1..Len(list.nodes) : Len(list.nodes[n].next) < MAX_HEIGHT
    /\ Keys \ inserted # {}

(***************************************************************************)
(* One writer and a reader on the same list (tests::ConcurrentTest).  Each *)
(* step is one load or store of max_height_ or of one forward pointer; a   *)
(* node's key is immutable and is read together with the pointer to it.    *)
(* Readers store nothing in the list, so one reader stands for any number. *)
(***************************************************************************)
ConcKeys == 1..MaxConcKey
ConcHeights == 1..MaxConcHeight

\* make_key(K, 0): the target past every key, and the key of an invalid iterator
EndKey == MaxConcKey + 1

CcInit == SkipListUnused /\ MemTableUnused /\ DbUnused /\ BoundaryUnused /\ OthersUnused

\* write_step calls insert; find_greater_or_equal, lines 115-116: load max_height_
WBegin ==
    /\ writer.pc = "idle"
    /\ \E key \in ConcKeys \ inserted :
         writer' = [pc |-> "desc", key |-> key, prev |-> EmptyPrev, x |-> head_,
                    level |-> GetMaxHeight(list) - 1, height |-> 0, i |-> 0]
    /\ UNCHANGED <<list, inserted, last_op, reader, memVars, dbVars, bndVars, ffVars, veVars, lgVars, ikVars, vsVars, utVars>>

\* find_greater_or_equal, lines 118-130: one iteration of the loop
WDescend ==
    /\ writer.pc = "desc"
    /\ LET next == NodeNext(list, writer.x, writer.level) IN
       IF KeyIsAfterNode("key", list, writer.key, next)
       THEN writer' = [writer EXCEPT !.x = next]
       ELSE writer' = [writer EXCEPT
                         !.prev[writer.level + 1] = writer.x,
                         !.pc = IF writer.level = 0 THEN "height" ELSE "desc",
                         !.level = IF writer.level = 0 THEN 0 ELSE writer.level - 1]
    /\ UNCHANGED <<list, inserted, last_op, reader, memVars, dbVars, bndVars, ffVars, veVars, lgVars, ikVars, vsVars, utVars>>

\* insert, lines 62-77: random_height, the head as predecessor of the new
\* levels, the store of max_height_, and new_node (no pointer leads to it yet)
WHeight ==
    /\ writer.pc = "height"
    /\ \E h \in ConcHeights :
         /\ writer' = [writer EXCEPT
                         !.height = h,
                         !.prev = RaisePrev(list, writer.prev, h),
                         !.pc = "init",
                         !.x = Len(list.nodes) + 1,
                         !.i = 0]
         /\ list' = [RaiseMaxHeight(list, h) EXCEPT
                       !.nodes = Append(@, NewNode(writer.key, h))]
    /\ UNCHANGED <<inserted, last_op, reader, memVars, dbVars, bndVars, ffVars, veVars, lgVars, ikVars, vsVars, utVars>>

\* insert, line 80: x.set_next(i, p.next(i))
WSpliceInit ==
    /\ writer.pc = "init"
    /\ list' = SpliceInit(list, writer.x, writer.i, writer.prev[writer.i + 1])
    /\ writer' = [writer EXCEPT !.pc = "publish"]
    /\ UNCHANGED <<inserted, last_op, reader, memVars, dbVars, bndVars, ffVars, veVars, lgVars, ikVars, vsVars, utVars>>

\* insert, line 81: p.set_next(i, Some(x)); after the last level insert returns
\* and write_step records the key in current_
WSplicePublish ==
    /\ writer.pc = "publish"
    /\ list' = SplicePublish(list, writer.x, writer.i, writer.prev[writer.i + 1])
    /\ IF writer.i + 1 < writer.height
       THEN /\ writer' = [writer EXCEPT !.pc = "init", !.i = writer.i + 1]
            /\ UNCHANGED inserted
       ELSE /\ writer' = IdleWriter
            /\ inserted' = inserted \cup {writer.key}
    /\ UNCHANGED <<last_op, reader, memVars, dbVars, bndVars, ffVars, veVars, lgVars, ikVars, vsVars, utVars>>

\* the key the iterator is at: iter.key(), or make_key(K, 0) when it is not valid
CurrentKey(l, node) == IF node = None THEN EndKey ELSE NodeKey(l, node)

\* read_step's check against its snapshot of current_: the first key at or after
\* `pos` that had been inserted when the snapshot was taken, or make_key(K, 0)
FirstInserted(snap, pos) ==
    LET S == {k \in snap : k >= pos} IN
    IF S = {} THEN EndKey ELSE CHOOSE k \in S : \A j \in S : k <= j

\* read_step, lines 443-450: snapshot current_, pick a target, Iter::seek
RBegin ==
    /\ reader.pc = "idle"
    /\ \E target \in 0..EndKey :
         reader' = [pc |-> "maxh", must |-> FirstInserted(inserted, target),
                    target |-> target, x |-> head_, level |-> 0, node |-> None]
    /\ UNCHANGED <<list, inserted, last_op, writer, memVars, dbVars, bndVars, ffVars, veVars, lgVars, ikVars, vsVars, utVars>>

\* find_greater_or_equal, lines 115-116: load max_height_
RLoadMaxHeight ==
    /\ reader.pc = "maxh"
    /\ reader' = [reader EXCEPT !.pc = "desc", !.x = head_,
                                 !.level = GetMaxHeight(list) - 1]
    /\ UNCHANGED <<list, inserted, last_op, writer, memVars, dbVars, bndVars, ffVars, veVars, lgVars, ikVars, vsVars, utVars>>

\* find_greater_or_equal, lines 118-130: one iteration of the loop
RDescend ==
    /\ reader.pc = "desc"
    /\ LET next == NodeNext(list, reader.x, reader.level) IN
       IF KeyIsAfterNode("key", list, reader.target, next)
       THEN reader' = [reader EXCEPT !.x = next]
       ELSE IF reader.level = 0
            THEN reader' = [reader EXCEPT !.pc = "at", !.node = next, !.x = head_]
            ELSE reader' = [reader EXCEPT !.level = reader.level - 1]
    /\ UNCHANGED <<list, inserted, last_op, writer, memVars, dbVars, bndVars, ffVars, veVars, lgVars, ikVars, vsVars, utVars>>

\* read_step, lines 483-485: Iter::next, one load of the level-0 pointer; the
\* position asked for is just past the key stepped from
RNext ==
    /\ reader.pc = "at"
    /\ reader.node # None
    /\ reader' = [reader EXCEPT
                    !.node = NodeNext(list, reader.node, 0),
                    !.target = NodeKey(list, reader.node) + 1,
                    !.must = FirstInserted(inserted, NodeKey(list, reader.node) + 1)]
    /\ UNCHANGED <<list, inserted, last_op, writer, memVars, dbVars, bndVars, ffVars, veVars, lgVars, ikVars, vsVars, utVars>>

\* read_step, lines 487-491: seek to a new target past the current position
RSeek ==
    /\ reader.pc = "at"
    /\ reader.node # None
    /\ \E target \in 0..EndKey :
         /\ target > NodeKey(list, reader.node)
         /\ reader' = [reader EXCEPT !.pc = "maxh", !.target = target,
                                      !.must = FirstInserted(inserted, target)]
    /\ UNCHANGED <<list, inserted, last_op, writer, memVars, dbVars, bndVars, ffVars, veVars, lgVars, ikVars, vsVars, utVars>>

\* read_step, lines 479-481: the iterator is not valid, the read step ends
REnd ==
    /\ reader.pc = "at"
    /\ reader.node = None
    /\ reader' = IdleReader
    /\ UNCHANGED <<list, inserted, last_op, writer, memVars, dbVars, bndVars, ffVars, veVars, lgVars, ikVars, vsVars, utVars>>

CcNext ==
    \/ WBegin \/ WDescend \/ WHeight \/ WSpliceInit \/ WSplicePublish
    \/ RBegin \/ RLoadMaxHeight \/ RDescend \/ RNext \/ RSeek \/ REnd

SpecConcurrent == CcInit /\ [][CcNext]_vars

\* C1: a reader never misses a key that was completely inserted before its
\* seek began.  The reader notes, when a seek or a next begins, the first key
\* at or after the position it asks for whose insert had returned by then;
\* whenever the iterator comes to rest it is at that key or before it, so no
\* such key lies in the range it passed over.  (The set of inserted keys only
\* grows, so this covers every key inserted before the reader's first seek.)
C1_ReaderMissesNothing ==
    reader.pc = "at" => CurrentKey(list, reader.node) <= reader.must

\* the reader came to rest on a key inserted before it began, past the target
\* it asked for, while the writer was in the middle of splicing another node
C1_Witness ==
    /\ reader.pc = "at"
    /\ reader.node # None
    /\ NodeKey(list, reader.node) = reader.must
    /\ NodeKey(list, reader.node) > reader.target
    /\ writer.pc = "publish"
    /\ writer.i > 0

(***************************************************************************)
(* util/coding.rs: the 64-bit varints and length-prefixed slices used by   *)
(* VersionEdit.  A parse result is [ok, value, rest]: the Option returned  *)
(* and the input after the advance.  Values stay below 2^31 in the model.  *)
(***************************************************************************)
\* encode_varint64
RECURSIVE EncodeVarint64(_)
EncodeVarint64(v) ==
    IF v >= B THEN <<OrB(v)>> \o EncodeVarint64(v \div 128) ELSE <<AsU8(v)>>

\* 1 << shift
RECURSIVE Pow2(_)
Pow2(shift) == IF shift = 0 THEN 1 ELSE 2 * Pow2(shift - 1)

\* get_varint64_idx: (-1, 0) when no final byte is found within 10 bytes
RECURSIVE GetVarint64Loop(_, _, _, _)
GetVarint64Loop(bytes, idx, shift, result) ==
    IF shift <= 63 /\ idx < Len(bytes)
    THEN LET byte == bytes[idx + 1] IN
         IF byte >= B
         THEN GetVarint64Loop(bytes, idx + 1, shift + 7,
                              result + (byte % B) * Pow2(shift))
         ELSE [next |-> idx + 1, value |-> result + byte * Pow2(shift)]
    ELSE [next |-> -1, value |-> 0]

GetVarint64Idx(bytes, idx) == GetVarint64Loop(bytes, idx, 0, 0)

\* get_varint32: the u32 is value (bits 0..30) and top (bit 31); None leaves
\* the input as it was
GetVarint32(input) ==
    Only({IF r.next = -1 THEN [ok |-> FALSE, value |-> 0, top |-> 0, rest |-> input]
          ELSE [ok |-> TRUE, value |-> r.value, top |-> r.top,
                rest |-> Range(input, r.next, Len(input))] :
          r \in {GetVarint32Idx(input, 0)}})

\* get_varint64: None leaves the input as it was
GetVarint64(input) ==
    Only({IF r.next = -1 THEN [ok |-> FALSE, value |-> 0, rest |-> input]
          ELSE [ok |-> TRUE, value |-> r.value,
                rest |-> Range(input, r.next, Len(input))] :
          r \in {GetVarint64Idx(input, 0)}})

\* put_length_prefixed_slice: varint64 of the size, then the bytes
PutLengthPrefixedSlice(value) == EncodeVarint64(Len(value)) \o value

\* get_length_prefixed_slice: None when fewer than len bytes follow, the
\* input then staying after the length
GetLengthPrefixedSlice(input) ==
    Only({IF r.ok /\ Len(r.rest) >= r.value
          THEN [ok |-> TRUE, value |-> Range(r.rest, 0, r.value),
                rest |-> Range(r.rest, r.value, Len(r.rest))]
          ELSE [ok |-> FALSE, value |-> <<>>, rest |-> r.rest] :
          r \in {GetVarint64(input)}})

(***************************************************************************)
(* slice.rs to_utf8_string and db/version_edit.rs                          *)
(***************************************************************************)
\* a continuation byte 10xxxxxx within [lo, hi]
Utf8Cont(bytes, i, lo, hi) == i <= Len(bytes) /\ bytes[i] >= lo /\ bytes[i] <= hi

\* std::str::from_utf8 succeeds (Slice::to_utf8_string returns Some)
RECURSIVE IsUtf8(_)
IsUtf8(bytes) ==
    IF bytes = <<>> THEN TRUE
    ELSE LET b == bytes[1] IN
         IF b < 128 THEN IsUtf8(Tail(bytes))
         ELSE IF b >= 194 /\ b <= 223
         THEN Utf8Cont(bytes, 2, 128, 191) /\ IsUtf8(Range(bytes, 2, Len(bytes)))
         ELSE IF b >= 224 /\ b <= 239
         THEN /\ Utf8Cont(bytes, 2, IF b = 224 THEN 160 ELSE 128,
                                    IF b = 237 THEN 159 ELSE 191)
              /\ Utf8Cont(bytes, 3, 128, 191)
              /\ IsUtf8(Range(bytes, 3, Len(bytes)))
         ELSE IF b >= 240 /\ b <= 244
         THEN /\ Utf8Cont(bytes, 2, IF b = 240 THEN 144 ELSE 128,
                                    IF b = 244 THEN 143 ELSE 191)
              /\ Utf8Cont(bytes, 3, 128, 191)
              /\ Utf8Cont(bytes, 4, 128, 191)
              /\ IsUtf8(Range(bytes, 4, Len(bytes)))
         ELSE FALSE

NUM_LEVELS == 7

\* tag numbers of a serialized VersionEdit
COMPARATOR == 1
LOG_NUMBER == 2
NEXT_FILE_NUMBER == 3
LAST_SEQUENCE == 4
COMPACT_POINTER == 5
DELETED_FILE == 6
NEW_FILE == 7
PREV_LOG_NUMBER == 9

\* VersionEdit::new
VersionEditNew ==
    [comparator_ |-> <<>>, log_number_ |-> 0, prev_log_number_ |-> 0,
     next_file_number_ |-> 0, last_sequence_ |-> 0,
     has_comparator_ |-> FALSE, has_log_number_ |-> FALSE,
     has_prev_log_number_ |-> FALSE, has_next_file_number_ |-> FALSE,
     has_last_sequence_ |-> FALSE,
     compact_pointers_ |-> <<>>, deleted_files_ |-> {}, new_files_ |-> <<>>]

SetComparatorName(e, name) == [e EXCEPT !.has_comparator_ = TRUE, !.comparator_ = name]
SetLogNumber(e, num) == [e EXCEPT !.has_log_number_ = TRUE, !.log_number_ = num]
SetNextFile(e, num) ==
    [e EXCEPT !.has_next_file_number_ = TRUE, !.next_file_number_ = num]
SetLastSequence(e, seq) == [e EXCEPT !.has_last_sequence_ = TRUE, !.last_sequence_ = seq]
SetPrevLogNumber(e, num) ==
    [e EXCEPT !.has_prev_log_number_ = TRUE, !.prev_log_number_ = num]
SetCompactPointer(e, level, key) ==
    [e EXCEPT !.compact_pointers_ = Append(@, <<level, key>>)]
\* VersionEdit::remove_file
EditRemoveFile(e, level, file) ==
    [e EXCEPT !.deleted_files_ = @ \cup {<<level, file>>}]
\* VersionEdit::add_file
AddFile(e, level, file, file_size, smallest, largest) ==
    [e EXCEPT !.new_files_ = Append(@, [level |-> level, number |-> file,
                                        file_size |-> file_size,
                                        smallest |-> smallest, largest |-> largest])]

\* `n as i32` of the u32 with bits 0..30 value and bit 31 top
AsI32(value, top) == IF top = 1 THEN (value - 2147483647) - 1 ELSE value

\* encode_varint32 of the u32 with bits 0..30 value and bit 31 top
EncodeVarint32U(value, top) ==
    IF top = 0 THEN EncodeVarint32(value)
    ELSE <<OrB(value), OrB(value \div 128), OrB(value \div 16384),
           OrB(value \div 2097152), 8 + (value \div 268435456)>>

\* put_varint32(dst, level as u32): a negative level has bit 31 set
PutLevel(level) ==
    IF level >= 0 THEN EncodeVarint32U(level, 0)
    ELSE EncodeVarint32U((level + 2147483647) + 1, 1)

\* the (level, key) pairs of compact_pointers_, encoded in order
RECURSIVE EncodeCompactPointers(_)
EncodeCompactPointers(ps) ==
    IF ps = <<>> THEN <<>>
    ELSE EncodeVarint32(COMPACT_POINTER) \o PutLevel(ps[1][1])
         \o PutLengthPrefixedSlice(ps[1][2]) \o EncodeCompactPointers(Tail(ps))

\* the (level, number) pairs of the BTreeSet deleted_files_, in ascending order
RECURSIVE EncodeDeletedFiles(_)
EncodeDeletedFiles(fs) ==
    IF fs = {} THEN <<>>
    ELSE LET f == CHOOSE f \in fs : \A g \in fs :
                      f[1] < g[1] \/ (f[1] = g[1] /\ f[2] <= g[2])
         IN  EncodeVarint32(DELETED_FILE) \o PutLevel(f[1])
             \o EncodeVarint64(f[2]) \o EncodeDeletedFiles(fs \ {f})

\* the (level, meta) pairs of new_files_, encoded in order
RECURSIVE EncodeNewFiles(_)
EncodeNewFiles(fs) ==
    IF fs = <<>> THEN <<>>
    ELSE EncodeVarint32(NEW_FILE) \o PutLevel(fs[1].level)
         \o EncodeVarint64(fs[1].number) \o EncodeVarint64(fs[1].file_size)
         \o PutLengthPrefixedSlice(fs[1].smallest)
         \o PutLengthPrefixedSlice(fs[1].largest) \o EncodeNewFiles(Tail(fs))

\* an encode_to that leaves out the previous log number
EncodeTo_NoPrevLogNumber(e) ==
    (IF e.has_comparator_
     THEN EncodeVarint32(COMPARATOR) \o PutLengthPrefixedSlice(e.comparator_)
     ELSE <<>>)
    \o (IF e.has_log_number_
        THEN EncodeVarint32(LOG_NUMBER) \o EncodeVarint64(e.log_number_) ELSE <<>>)
    \o (IF e.has_next_file_number_
        THEN EncodeVarint32(NEXT_FILE_NUMBER) \o EncodeVarint64(e.next_file_number_)
        ELSE <<>>)
    \o (IF e.has_last_sequence_
        THEN EncodeVarint32(LAST_SEQUENCE) \o EncodeVarint64(e.last_sequence_)
        ELSE <<>>)
    \o EncodeCompactPointers(e.compact_pointers_)
    \o EncodeDeletedFiles(e.deleted_files_)
    \o EncodeNewFiles(e.new_files_)

\* VersionEdit::encode_to
EncodeTo(e) ==
    (IF e.has_comparator_
     THEN EncodeVarint32(COMPARATOR) \o PutLengthPrefixedSlice(e.comparator_)
     ELSE <<>>)
    \o (IF e.has_log_number_
        THEN EncodeVarint32(LOG_NUMBER) \o EncodeVarint64(e.log_number_) ELSE <<>>)
    \o (IF e.has_prev_log_number_
        THEN EncodeVarint32(PREV_LOG_NUMBER) \o EncodeVarint64(e.prev_log_number_)
        ELSE <<>>)
    \o (IF e.has_next_file_number_
        THEN EncodeVarint32(NEXT_FILE_NUMBER) \o EncodeVarint64(e.next_file_number_)
        ELSE <<>>)
    \o (IF e.has_last_sequence_
        THEN EncodeVarint32(LAST_SEQUENCE) \o EncodeVarint64(e.last_sequence_)
        ELSE <<>>)
    \o EncodeCompactPointers(e.compact_pointers_)
    \o EncodeDeletedFiles(e.deleted_files_)
    \o EncodeNewFiles(e.new_files_)

\* get_level: the varint32 cast to i32, accepted when below NUM_LEVELS
GetLevel(input) ==
    Only({IF r.ok /\ AsI32(r.value, r.top) < NUM_LEVELS
          THEN [ok |-> TRUE, value |-> AsI32(r.value, r.top), rest |-> r.rest]
          ELSE [ok |-> FALSE, value |-> 0, rest |-> r.rest] :
          r \in {GetVarint32(input)}})

\* get_internal_key: a length-prefixed slice taken as the key's bytes
GetInternalKey(input) == GetLengthPrefixedSlice(input)

\* one tagged field of decode_from applied to result; msg names what failed
DecodeField(tag, input, result) ==
    LET fail(m) == [msg |-> m, input |-> input, result |-> result]
        done(rest, r) == [msg |-> "", input |-> rest, result |-> r]
    IN
    CASE tag = COMPARATOR ->
           LET s == GetLengthPrefixedSlice(input) IN
           IF s.ok /\ IsUtf8(s.value)
           THEN done(s.rest, [result EXCEPT !.comparator_ = s.value,
                                            !.has_comparator_ = TRUE])
           ELSE fail("comparator name")
      [] tag = LOG_NUMBER ->
           LET n == GetVarint64(input) IN
           IF n.ok THEN done(n.rest, [result EXCEPT !.log_number_ = n.value,
                                                    !.has_log_number_ = TRUE])
           ELSE fail("log number")
      [] tag = PREV_LOG_NUMBER ->
           LET n == GetVarint64(input) IN
           IF n.ok THEN done(n.rest, [result EXCEPT !.prev_log_number_ = n.value,
                                                    !.has_prev_log_number_ = TRUE])
           ELSE fail("previous log number")
      [] tag = NEXT_FILE_NUMBER ->
           LET n == GetVarint64(input) IN
           IF n.ok THEN done(n.rest, [result EXCEPT !.next_file_number_ = n.value,
                                                    !.has_next_file_number_ = TRUE])
           ELSE fail("next file number")
      [] tag = LAST_SEQUENCE ->
           LET n == GetVarint64(input) IN
           IF n.ok THEN done(n.rest, [result EXCEPT !.last_sequence_ = n.value,
                                                    !.has_last_sequence_ = TRUE])
           ELSE fail("last sequence number")
      [] tag = COMPACT_POINTER ->
           LET l == GetLevel(input)
               k == GetInternalKey(l.rest)
           IN  IF l.ok /\ k.ok
               THEN done(k.rest, [result EXCEPT !.compact_pointers_ =
                                      Append(@, <<l.value, k.value>>)])
               ELSE fail("compaction pointer")
      [] tag = DELETED_FILE ->
           LET l == GetLevel(input)
               n == GetVarint64(l.rest)
           IN  IF l.ok /\ n.ok
               THEN done(n.rest, [result EXCEPT !.deleted_files_ =
                                      @ \cup {<<l.value, n.value>>}])
               ELSE fail("deleted file")
      [] tag = NEW_FILE ->
           LET l  == GetLevel(input)
               n  == GetVarint64(l.rest)
               sz == GetVarint64(n.rest)
               sm == GetInternalKey(sz.rest)
               lg == GetInternalKey(sm.rest)
           IN  IF l.ok /\ n.ok /\ sz.ok /\ sm.ok /\ lg.ok
               THEN done(lg.rest, [result EXCEPT !.new_files_ =
                                      Append(@, [level |-> l.value, number |-> n.value,
                                                 file_size |-> sz.value,
                                                 smallest |-> sm.value,
                                                 largest |-> lg.value])])
               ELSE fail("new-file entry")
      [] OTHER -> fail("unknown tag")

\* the loop of decode_from: fields are read while msg is empty and a tag parses
RECURSIVE DecodeLoop(_, _)
DecodeLoop(input, result) ==
    Only({IF t.ok
          THEN Only({IF f.msg = "" THEN DecodeLoop(f.input, f.result) ELSE f :
                     f \in {DecodeField(AsU8(t.value), t.rest, result)}})
          ELSE [msg |-> "", input |-> input, result |-> result] :
          t \in {GetVarint32(input)}})

\* VersionEdit::decode_from: Ok(edit), or Corruption("VersionEdit", msg)
DecodeFrom(src) ==
    Only({IF r.msg = "" /\ r.input = <<>>
          THEN [ok |-> TRUE, edit |-> r.result, msg |-> ""]
          ELSE [ok |-> FALSE, edit |-> VersionEditNew,
                msg |-> IF r.msg = "" THEN "invalid tag" ELSE r.msg] :
          r \in {DecodeLoop(src, VersionEditNew)}})

(***************************************************************************)
(* util/crc32c.rs, db/log_format.rs and the physical record of             *)
(* db/log_writer.rs                                                        *)
(***************************************************************************)
BLOCK_SIZE == 32768
HEADER_SIZE == 7

ZeroType == 0
FullType == 1
FirstType == 2
MiddleType == 3
LastType == 4

\* crc32c::crc32c_append of the external crc32c crate, which extend and value
\* call: a checksum of the bytes that continues from init_crc.  The crate is
\* not part of the repository; a 16-bit polynomial hash stands for it.
RECURSIVE Crc32cAppend(_, _)
Crc32cAppend(init_crc, data) ==
    IF data = <<>> THEN init_crc
    ELSE Crc32cAppend((init_crc * 31 + data[1] + 1) % 65521, Tail(data))

\* Writer::init_type_crc: type_crc_[t] = value(&[t])
TypeCrc(t) == Crc32cAppend(0, <<t>>)

\* mask: rotate right by 15 bits and add MASK_DELTA (0xa282ead8), modulo 2^32.
\* The 32-bit word is kept as its 16-bit halves <<hi, lo>>.
Mask(crc) ==
    LET hi  == crc \div 65536
        lo  == crc % 65536
        low == hi * 2 + lo \div 32768          \* crc >> 15
        rhi == (low \div 65536 + (lo % 32768) * 2) % 65536
        rlo == low % 65536
        slo == rlo + 60120
        shi == rhi + 41602 + slo \div 65536
    IN  <<shi % 65536, slo % 65536>>

\* encode_fixed32 of a word given as <<hi, lo>>
EncodeFixed32Halves(w) == <<w[2] % 256, w[2] \div 256, w[1] % 256, w[1] \div 256>>

\* emit_physical_record: the 7-byte header for a fragment of type t
RecordHeader(t, fragment) ==
    EncodeFixed32Halves(Mask(Crc32cAppend(TypeCrc(t), fragment)))
    \o <<AsU8(Len(fragment)), AsU8(Len(fragment) \div 256), t>>

\* an add_record that marks every fragment after the first as the last one
FragmentType_NoMiddle(begin, end) ==
    IF begin /\ end THEN FullType
    ELSE IF begin THEN FirstType
    ELSE LastType

\* add_record: the type of a fragment from its position in the record
FragmentType(begin, end) ==
    IF begin /\ end THEN FullType
    ELSE IF begin THEN FirstType
    ELSE IF end THEN LastType
    ELSE MiddleType

(***************************************************************************)
(* db/filename.rs.  Names and file contents are ASCII byte strings.        *)
(***************************************************************************)
\* the decimal digits of number, most significant first
RECURSIVE Decimal(_)
Decimal(number) ==
    IF number < 10 THEN <<48 + number>>
    ELSE Decimal(number \div 10) \o <<48 + (number % 10)>>

\* {:06}: the decimal digits, zero-padded on the left to at least 6
Format06(number) ==
    LET d == Decimal(number) IN
    [i \in 1..(IF Len(d) < 6 THEN 6 - Len(d) ELSE 0) |-> 48] \o d

\* "db"
DbName == <<100, 98>>

\* make_file_name: "{dbname}/{number:06}.{suffix}"
MakeFileName(dbname, number, suffix) ==
    dbname \o <<47>> \o Format06(number) \o <<46>> \o suffix

\* descriptor_file_name: "{dbname}/MANIFEST-{number:06}"
DescriptorFileName(dbname, number) ==
    dbname \o <<47>> \o <<77, 65, 78, 73, 70, 69, 83, 84, 45>> \o Format06(number)

\* current_file_name: "{dbname}/CURRENT"
CurrentFileName(dbname) == dbname \o <<47>> \o <<67, 85, 82, 82, 69, 78, 84>>

\* lock_file_name: "{dbname}/LOCK"
LockFileName(dbname) == dbname \o <<47>> \o <<76, 79, 67, 75>>

\* temp_file_name: "{dbname}/{number:06}.dbtmp"
TempFileName(dbname, number) == MakeFileName(dbname, number, <<100, 98, 116, 109, 112>>)

\* str::strip_prefix: <<rest>> when s starts with prefix, <<>> (None) otherwise
StripPrefix(s, prefix) ==
    IF Len(s) >= Len(prefix) /\ SubSeq(s, 1, Len(prefix)) = prefix
    THEN <<SubSeq(s, Len(prefix) + 1, Len(s))>>
    ELSE <<>>

\* set_current_file: the manifest name without "{dbname}/", and a newline
CurrentContents(dbname, descriptor_number) ==
    StripPrefix(DescriptorFileName(dbname, descriptor_number), dbname \o <<47>>)[1]
    \o <<10>>

(***************************************************************************)
(* env.rs: the Env and WritableFile a database runs on.  The traits have   *)
(* no implementation in the repository; the files follow the traits'       *)
(* documentation.  A file is [exists, data, synced]: synced is the length  *)
(* of the prefix of data that a sync has made durable.  disk.live is the   *)
(* directory as the process sees it, disk.durable the last state of each   *)
(* name that is known to survive a crash, disk.initial the directory at    *)
(* the start of the call.                                                  *)
(***************************************************************************)
Absent == [exists |-> FALSE, data |-> <<>>, synced |-> 0]

Stored(data) == [exists |-> TRUE, data |-> data, synced |-> Len(data)]

FileNames ==
    {CurrentFileName(DbName), LockFileName(DbName)}
    \cup {DescriptorFileName(DbName, n) : n \in 1..MaxDescriptor}
    \cup {TempFileName(DbName, n) : n \in 1..MaxDescriptor}

\* Env::new_writable_file: deletes any existing file of the name, creates a new one
NewWritableFile(d, fname) ==
    [d EXCEPT !.live[fname] = [exists |-> TRUE, data |-> <<>>, synced |-> 0]]

\* WritableFile::append
FileAppend(d, fname, data) == [d EXCEPT !.live[fname].data = @ \o data]

\* WritableFile::sync
FileSync(d, fname) ==
    [d EXCEPT !.live[fname].synced = Len(d.live[fname].data),
              !.durable[fname] = Stored(d.live[fname].data)]

\* Env::remove_file
RemoveFile(d, fname) == [d EXCEPT !.live[fname] = Absent]

\* Env::rename_file: target is replaced atomically
RenameFile(d, src, target) ==
    [d EXCEPT !.live[target] = d.live[src], !.live[src] = Absent]

\* Env::lock_file: may create the named file
LockFile(d, fname) ==
    IF d.live[fname].exists THEN d
    ELSE [d EXCEPT !.live[fname] = [exists |-> TRUE, data |-> <<>>, synced |-> 0]]

\* Env::file_exists
FileExists(d, fname) == d.live[fname].exists

\* what a crash can leave under a name: its durable state, or its live state
\* with any part of the data past the synced prefix lost
CrashOutcomes(d, fname) ==
    {d.durable[fname]}
    \cup (IF d.live[fname].exists
          THEN {Stored(SubSeq(d.live[fname].data, 1, k)) :
                    k \in d.live[fname].synced..Len(d.live[fname].data)}
          ELSE {Absent})

\* the directories a crash can leave
RECURSIVE CrashDirs(_, _)
CrashDirs(d, names) ==
    IF names = {} THEN {<<>>}
    ELSE LET fname == CHOOSE f \in names : TRUE IN
         {(fname :> o) @@ rest : o \in CrashOutcomes(d, fname),
                                 rest \in CrashDirs(d, names \ {fname})}

OkStatus == [code |-> "Ok", msg |-> ""]

\* the status a failing Env or WritableFile call returns
IoError(op) == [code |-> "IOError", msg |-> op]

\* Status::invalid_argument(dbname, msg2)
InvalidArgument(msg2) == [code |-> "InvalidArgument", msg |-> msg2]

\* the Env calls so far and one more
Logged(op, fname, ok) == Append(calls, [op |-> op, file |-> fname, ok |-> ok])

(***************************************************************************)
(* db.rs: DB::new_db's first manifest record                               *)
(***************************************************************************)
\* InternalKeyComparator::name: "leveldb.InternalKeyComparator"
InternalKeyComparatorName ==
    <<108, 101, 118, 101, 108, 100, 98, 46,
     73, 110, 116, 101, 114, 110, 97, 108, 75, 101, 121, 67, 111, 109, 112, 97, 114, 97, 116, 111, 114>>

\* new_db: the VersionEdit it builds
NewDbEdit ==
    SetLastSequence(
        SetNextFile(
            SetLogNumber(
                SetComparatorName(VersionEditNew, InternalKeyComparatorName), 0), 2), 0)

\* new_db: the record handed to add_record
NewDbRecord == EncodeTo(NewDbEdit)

\* add_record on a block offset: the fragment emitted next and its type.  The
\* trailer is filled only when fewer than HEADER_SIZE bytes are left in the
\* block, which does not happen for the first record of a file.
NextFragment(block_offset, slice, begin) ==
    LET left            == Len(slice)
        avail           == BLOCK_SIZE - block_offset - HEADER_SIZE
        fragment_length == IF left < avail THEN left ELSE avail
    IN  [type   |-> FragmentType(begin, left = fragment_length),
         length |-> fragment_length]

\* a manifest holding exactly the record new_db writes, as one physical record
ManifestOfNewDb == RecordHeader(FullType, NewDbRecord) \o NewDbRecord

(***************************************************************************)
(* db.rs DB::recover and DB::new_db, db/filename.rs set_current_file,      *)
(* util/env.rs do_write_string_to_file.  One action per Env call; db.pc is *)
(* the call about to be made.  db.mode is "open" for recover as DB::open   *)
(* calls it and "set_current_file" for a call of set_current_file alone.   *)
(***************************************************************************)
Manifest1 == DescriptorFileName(DbName, 1)

\* the directories a call starts in: empty; the leftovers of a failed
\* creation; a database whose CURRENT names manifest m
EmptyDir == [f \in FileNames |-> Absent]

StaleDir ==
    [EmptyDir EXCEPT ![LockFileName(DbName)] = Stored(<<>>),
                     ![Manifest1] = Stored(SubSeq(ManifestOfNewDb, 1, HEADER_SIZE + 3)),
                     ![TempFileName(DbName, 1)] =
                         Stored(SubSeq(CurrentContents(DbName, 1), 1, 4))]

ExistingDb(m) ==
    [EmptyDir EXCEPT ![LockFileName(DbName)] = Stored(<<>>),
                     ![DescriptorFileName(DbName, m)] = Stored(ManifestOfNewDb),
                     ![CurrentFileName(DbName)] = Stored(CurrentContents(DbName, m))]

InitialDirs == {EmptyDir, StaleDir} \cup {ExistingDb(m) : m \in 1..MaxDescriptor}

\* DB::new and the arguments of the call
InitialDbs ==
    {[mode |-> "open", pc |-> "create_dir", number |-> 1,
      options |-> [create_if_missing |-> c, error_if_exists |-> e],
      db_lock_ |-> FALSE, s |-> OkStatus, block_offset_ |-> 0, slice |-> <<>>,
      begin |-> TRUE] :
        c \in BOOLEAN, e \in BOOLEAN}
    \cup
    {[mode |-> "set_current_file", pc |-> "set_current_file", number |-> n,
      options |-> [create_if_missing |-> FALSE, error_if_exists |-> FALSE],
      db_lock_ |-> FALSE, s |-> OkStatus, block_offset_ |-> 0, slice |-> <<>>,
      begin |-> TRUE] :
        n \in 1..MaxDescriptor}

DbInit ==
    /\ SkipListUnused /\ MemTableUnused /\ BoundaryUnused /\ OthersUnused
    /\ \E dir \in InitialDirs : disk = [live |-> dir, durable |-> dir, initial |-> dir]
    /\ db \in InitialDbs
    /\ calls = <<>>

\* the call has returned db.s to its caller
Returned(s) == [db EXCEPT !.pc = "done", !.s = s]

\* recover, line 129: create_dir, whose result is ignored
RecoverCreateDir ==
    /\ db.pc = "create_dir"
    /\ \E ok \in BOOLEAN : calls' = Logged("create_dir", DbName, ok)
    /\ db' = [db EXCEPT !.pc = "lock_file"]
    /\ UNCHANGED <<disk, slVars, memVars, bndVars, ffVars, veVars, lgVars, ikVars, vsVars, utVars>>

\* a recover that goes on without the lock when lock_file fails
RecoverLockFile_Ignored ==
    /\ db.pc = "lock_file"
    /\ \E ok \in BOOLEAN :
         /\ calls' = Logged("lock_file", LockFileName(DbName), ok)
         /\ disk' = IF ok THEN LockFile(disk, LockFileName(DbName)) ELSE disk
         /\ db' = [db EXCEPT !.pc = "file_exists", !.db_lock_ = ok]
    /\ UNCHANGED <<slVars, memVars, bndVars, ffVars, veVars, lgVars, ikVars, vsVars, utVars>>

\* recover, lines 131-134: lock_file; its error is returned
RecoverLockFile ==
    /\ db.pc = "lock_file"
    /\ \E ok \in BOOLEAN :
         /\ calls' = Logged("lock_file", LockFileName(DbName), ok)
         /\ IF ok
            THEN /\ disk' = LockFile(disk, LockFileName(DbName))
                 /\ db' = [db EXCEPT !.pc = "file_exists", !.db_lock_ = TRUE]
            ELSE /\ db' = Returned(IoError("lock_file"))
                 /\ UNCHANGED disk
    /\ UNCHANGED <<slVars, memVars, bndVars, ffVars, veVars, lgVars, ikVars, vsVars, utVars>>

\* a recover that creates the database whatever create_if_missing says
RecoverFileExists_AlwaysCreate ==
    /\ db.pc = "file_exists"
    /\ LET exists == FileExists(disk, CurrentFileName(DbName)) IN
       /\ calls' = Logged("file_exists", CurrentFileName(DbName), exists)
       /\ db' = IF ~exists
                THEN [db EXCEPT !.pc = "new_db"]
                ELSE Returned(InvalidArgument("exists (error_if_exists is true)"))
    /\ UNCHANGED <<disk, slVars, memVars, bndVars, ffVars, veVars, lgVars, ikVars, vsVars, utVars>>

\* recover, lines 136-148: the test for CURRENT and what follows from it
RecoverFileExists ==
    /\ db.pc = "file_exists"
    /\ LET exists == FileExists(disk, CurrentFileName(DbName)) IN
       /\ calls' = Logged("file_exists", CurrentFileName(DbName), exists)
       /\ db' = IF ~exists
                THEN IF db.options.create_if_missing
                     THEN [db EXCEPT !.pc = "new_db"]
                     ELSE Returned(InvalidArgument(
                              "does not exist (create_if_missing is false)"))
                ELSE Returned(InvalidArgument("exists (error_if_exists is true)"))
    /\ UNCHANGED <<disk, slVars, memVars, bndVars, ffVars, veVars, lgVars, ikVars, vsVars, utVars>>

\* new_db, lines 98-102: new_writable_file(MANIFEST-000001) and Writer::new;
\* an error is returned at once
NewDbCreateManifest ==
    /\ db.pc = "new_db"
    /\ \E ok \in BOOLEAN :
         /\ calls' = Logged("new_writable_file", Manifest1, ok)
         /\ IF ok
            THEN /\ disk' = NewWritableFile(disk, Manifest1)
                 /\ db' = [db EXCEPT !.pc = "emit_header", !.block_offset_ = 0,
                                     !.slice = NewDbRecord, !.begin = TRUE]
            ELSE /\ db' = Returned(IoError("new_writable_file"))
                 /\ UNCHANGED disk
    /\ UNCHANGED <<slVars, memVars, bndVars, ffVars, veVars, lgVars, ikVars, vsVars, utVars>>

\* a failing append leaves any prefix of the data in the file
AppendOutcome(fname, data, ok, k) ==
    disk' = FileAppend(disk, fname, IF ok THEN data ELSE SubSeq(data, 1, k))

\* add_record / emit_physical_record, lines 85-101: the header is appended
EmitHeader ==
    /\ db.pc = "emit_header"
    /\ LET f      == NextFragment(db.block_offset_, db.slice, db.begin)
           header == RecordHeader(f.type, SubSeq(db.slice, 1, f.length))
       IN  \E ok \in BOOLEAN, k \in 0..HEADER_SIZE :
             /\ ok => k = HEADER_SIZE
             /\ calls' = Logged("append", Manifest1, ok)
             /\ AppendOutcome(Manifest1, header, ok, k)
             /\ db' = IF ok THEN [db EXCEPT !.pc = "emit_payload"]
                      ELSE [db EXCEPT !.pc = "remove_manifest",
                                      !.s = IoError("append"),
                                      !.block_offset_ = @ + HEADER_SIZE + f.length]
    /\ UNCHANGED <<slVars, memVars, bndVars, ffVars, veVars, lgVars, ikVars, vsVars, utVars>>

\* emit_physical_record, lines 102-110: the payload is appended
EmitPayload ==
    /\ db.pc = "emit_payload"
    /\ LET f       == NextFragment(db.block_offset_, db.slice, db.begin)
           payload == SubSeq(db.slice, 1, f.length)
       IN  \E ok \in BOOLEAN, k \in 0..f.length :
             /\ ok => k = f.length
             /\ calls' = Logged("append", Manifest1, ok)
             /\ AppendOutcome(Manifest1, payload, ok, k)
             /\ db' = IF ok
                      THEN [db EXCEPT !.pc = "flush",
                                      !.slice = SubSeq(@, f.length + 1, Len(@)),
                                      !.block_offset_ = @ + HEADER_SIZE + f.length]
                      ELSE [db EXCEPT !.pc = "remove_manifest",
                                      !.s = IoError("append"),
                                      !.slice = SubSeq(@, f.length + 1, Len(@)),
                                      !.block_offset_ = @ + HEADER_SIZE + f.length]
    /\ UNCHANGED <<slVars, memVars, bndVars, ffVars, veVars, lgVars, ikVars, vsVars, utVars>>

\* emit_physical_record, lines 105-107, and add_record, lines 73-78: flush,
\* whose status is dropped; add_record returns OK once the slice is empty
EmitFlush ==
    /\ db.pc = "flush"
    /\ \E ok \in BOOLEAN : calls' = Logged("flush", Manifest1, ok)
    /\ db' = [db EXCEPT !.pc = IF db.slice = <<>> THEN "sync" ELSE "emit_header",
                        !.begin = FALSE]
    /\ UNCHANGED <<disk, slVars, memVars, bndVars, ffVars, veVars, lgVars, ikVars, vsVars, utVars>>

\* a new_db that closes the manifest and goes on when sync has failed
NewDbSync_Unchecked ==
    /\ db.pc = "sync"
    /\ \E ok \in BOOLEAN :
         /\ calls' = Logged("sync", Manifest1, ok)
         /\ disk' = IF ok THEN FileSync(disk, Manifest1) ELSE disk
         /\ db' = [db EXCEPT !.pc = "close"]
    /\ UNCHANGED <<slVars, memVars, bndVars, ffVars, veVars, lgVars, ikVars, vsVars, utVars>>

\* new_db, lines 106-108: file.sync()
NewDbSync ==
    /\ db.pc = "sync"
    /\ \E ok \in BOOLEAN :
         /\ calls' = Logged("sync", Manifest1, ok)
         /\ IF ok
            THEN /\ disk' = FileSync(disk, Manifest1)
                 /\ db' = [db EXCEPT !.pc = "close"]
            ELSE /\ db' = [db EXCEPT !.pc = "remove_manifest", !.s = IoError("sync")]
                 /\ UNCHANGED disk
    /\ UNCHANGED <<slVars, memVars, bndVars, ffVars, veVars, lgVars, ikVars, vsVars, utVars>>

\* new_db, lines 109-111: file.close()
NewDbClose ==
    /\ db.pc = "close"
    /\ \E ok \in BOOLEAN :
         /\ calls' = Logged("close", Manifest1, ok)
         /\ db' = IF ok THEN [db EXCEPT !.pc = "set_current_file", !.number = 1]
                  ELSE [db EXCEPT !.pc = "remove_manifest", !.s = IoError("close")]
    /\ UNCHANGED <<disk, slVars, memVars, bndVars, ffVars, veVars, lgVars, ikVars, vsVars, utVars>>

\* new_db, lines 118-121: a failed write removes the manifest (the status of
\* remove_file is dropped) and the error goes back through recover
NewDbRemoveManifest ==
    /\ db.pc = "remove_manifest"
    /\ \E ok \in BOOLEAN :
         /\ calls' = Logged("remove_file", Manifest1, ok)
         /\ disk' = IF ok THEN RemoveFile(disk, Manifest1) ELSE disk
    /\ db' = Returned(db.s)
    /\ UNCHANGED <<slVars, memVars, bndVars, ffVars, veVars, lgVars, ikVars, vsVars, utVars>>

\* set_current_file returns s: to new_db and through it to recover, which
\* goes on to VersionSet::recover when s is OK, or to its own caller
SetCurrentFileReturned(s) ==
    IF db.mode = "open" /\ s = OkStatus
    THEN [db EXCEPT !.pc = "versions_recover", !.s = s]
    ELSE Returned(s)

TmpName == TempFileName(DbName, db.number)

\* set_current_file, lines 29-34, and do_write_string_to_file, lines 11-21:
\* new_writable_file(tmp); its error goes straight back to set_current_file
WriteCreate ==
    /\ db.pc = "set_current_file"
    /\ \E ok \in BOOLEAN :
         /\ calls' = Logged("new_writable_file", TmpName, ok)
         /\ IF ok
            THEN /\ disk' = NewWritableFile(disk, TmpName)
                 /\ db' = [db EXCEPT !.pc = "tmp_append"]
            ELSE /\ db' = [db EXCEPT !.pc = "remove_tmp",
                                     !.s = IoError("new_writable_file")]
                 /\ UNCHANGED disk
    /\ UNCHANGED <<slVars, memVars, bndVars, ffVars, veVars, lgVars, ikVars, vsVars, utVars>>

\* do_write_string_to_file, line 13: file.append(data)
WriteAppend ==
    /\ db.pc = "tmp_append"
    /\ LET contents == CurrentContents(DbName, db.number) IN
       \E ok \in BOOLEAN, k \in 0..Len(contents) :
         /\ ok => k = Len(contents)
         /\ calls' = Logged("append", TmpName, ok)
         /\ AppendOutcome(TmpName, contents, ok, k)
         /\ db' = IF ok THEN [db EXCEPT !.pc = "tmp_sync"]
                  ELSE [db EXCEPT !.pc = "write_remove", !.s = IoError("append")]
    /\ UNCHANGED <<slVars, memVars, bndVars, ffVars, veVars, lgVars, ikVars, vsVars, utVars>>

\* a do_write_string_to_file that closes the file when sync has failed
WriteSync_Unchecked ==
    /\ db.pc = "tmp_sync"
    /\ \E ok \in BOOLEAN :
         /\ calls' = Logged("sync", TmpName, ok)
         /\ disk' = IF ok THEN FileSync(disk, TmpName) ELSE disk
         /\ db' = [db EXCEPT !.pc = "tmp_close"]
    /\ UNCHANGED <<slVars, memVars, bndVars, ffVars, veVars, lgVars, ikVars, vsVars, utVars>>

\* do_write_string_to_file, lines 14-16: file.sync()
WriteSync ==
    /\ db.pc = "tmp_sync"
    /\ \E ok \in BOOLEAN :
         /\ calls' = Logged("sync", TmpName, ok)
         /\ IF ok
            THEN /\ disk' = FileSync(disk, TmpName)
                 /\ db' = [db EXCEPT !.pc = "tmp_close"]
            ELSE /\ db' = [db EXCEPT !.pc = "write_remove", !.s = IoError("sync")]
                 /\ UNCHANGED disk
    /\ UNCHANGED <<slVars, memVars, bndVars, ffVars, veVars, lgVars, ikVars, vsVars, utVars>>

\* do_write_string_to_file, lines 17-19: file.close()
WriteClose ==
    /\ db.pc = "tmp_close"
    /\ \E ok \in BOOLEAN :
         /\ calls' = Logged("close", TmpName, ok)
         /\ db' = IF ok THEN [db EXCEPT !.pc = "rename"]
                  ELSE [db EXCEPT !.pc = "write_remove", !.s = IoError("close")]
    /\ UNCHANGED <<disk, slVars, memVars, bndVars, ffVars, veVars, lgVars, ikVars, vsVars, utVars>>

\* do_write_string_to_file, lines 23-26: a failed write removes the file
WriteRemove ==
    /\ db.pc = "write_remove"
    /\ \E ok \in BOOLEAN :
         /\ calls' = Logged("remove_file", TmpName, ok)
         /\ disk' = IF ok THEN RemoveFile(disk, TmpName) ELSE disk
    /\ db' = [db EXCEPT !.pc = "remove_tmp"]
    /\ UNCHANGED <<slVars, memVars, bndVars, ffVars, veVars, lgVars, ikVars, vsVars, utVars>>

\* set_current_file, lines 35-37: rename_file(tmp, CURRENT)
SetCurrentRename ==
    /\ db.pc = "rename"
    /\ \E ok \in BOOLEAN :
         /\ calls' = Logged("rename_file", TmpName, ok)
         /\ IF ok
            THEN /\ disk' = RenameFile(disk, TmpName, CurrentFileName(DbName))
                 /\ db' = SetCurrentFileReturned(OkStatus)
            ELSE /\ db' = [db EXCEPT !.pc = "remove_tmp", !.s = IoError("rename_file")]
                 /\ UNCHANGED disk
    /\ UNCHANGED <<slVars, memVars, bndVars, ffVars, veVars, lgVars, ikVars, vsVars, utVars>>

\* a set_current_file that returns its error and leaves the temp file alone
SetCurrentRemoveTmp_Skipped ==
    /\ db.pc = "remove_tmp"
    /\ db' = SetCurrentFileReturned(db.s)
    /\ UNCHANGED <<disk, calls, slVars, memVars, bndVars, ffVars, veVars, lgVars, ikVars, vsVars, utVars>>

\* set_current_file, lines 38-41: on any failure remove_file(tmp), then return
SetCurrentRemoveTmp ==
    /\ db.pc = "remove_tmp"
    /\ \E ok \in BOOLEAN :
         /\ calls' = Logged("remove_file", TmpName, ok)
         /\ disk' = IF ok THEN RemoveFile(disk, TmpName) ELSE disk
    /\ db' = SetCurrentFileReturned(db.s)
    /\ UNCHANGED <<slVars, memVars, bndVars, ffVars, veVars, lgVars, ikVars, vsVars, utVars>>

\* the process dies in the middle of the call
Crash ==
    /\ db.pc # "crashed"
    /\ \E dir \in CrashDirs(disk, FileNames) :
         disk' = [live |-> dir, durable |-> dir, initial |-> disk.initial]
    /\ db' = [db EXCEPT !.pc = "crashed"]
    /\ UNCHANGED <<calls, slVars, memVars, bndVars, ffVars, veVars, lgVars, ikVars, vsVars, utVars>>

DbNext ==
    \/ RecoverCreateDir \/ RecoverLockFile \/ RecoverFileExists
    \/ NewDbCreateManifest \/ EmitHeader \/ EmitPayload \/ EmitFlush
    \/ NewDbSync \/ NewDbClose \/ NewDbRemoveManifest
    \/ WriteCreate \/ WriteAppend \/ WriteSync \/ WriteClose \/ WriteRemove
    \/ SetCurrentRename \/ SetCurrentRemoveTmp
    \/ Crash

SpecDb == DbInit /\ [][DbNext]_vars

(***************************************************************************)
(* Properties of recover, new_db and set_current_file                      *)
(***************************************************************************)
\* what a log reader and VersionEdit::decode_from accept as a manifest with one
\* whole record: a header of full type whose length and checksum match the
\* payload that follows it to the end of the file, and a payload that decodes
ManifestComplete(file) ==
    /\ file.exists
    /\ Len(file.data) >= HEADER_SIZE
    /\ LET payload == SubSeq(file.data, HEADER_SIZE + 1, Len(file.data)) IN
       /\ file.data[7] = FullType
       /\ file.data[5] + 256 * file.data[6] = Len(payload)
       /\ SubSeq(file.data, 1, HEADER_SIZE) = RecordHeader(FullType, payload)
       /\ DecodeFrom(payload).ok

\* call i was made after OK calls of op1, op2 and op3 on fname, in this order
AfterOkCalls(i, fname, op1, op2, op3) ==
    \E j \in 1..(i - 1), k \in 1..(i - 1), l \in 1..(i - 1) :
        /\ j < k /\ k < l
        /\ calls[j] = [op |-> op1, file |-> fname, ok |-> TRUE]
        /\ calls[k] = [op |-> op2, file |-> fname, ok |-> TRUE]
        /\ calls[l] = [op |-> op3, file |-> fname, ok |-> TRUE]

\* rename_file has returned OK
Renamed == \E i \in DOMAIN calls : calls[i].op = "rename_file" /\ calls[i].ok

\* "MANIFEST-00000n\n" for a one-digit n
ManifestLine(n) == <<77, 65, 78, 73, 70, 69, 83, 84, 45, 48, 48, 48, 48, 48, 48 + n, 10>>

\* C4: in new_db the rename onto CURRENT is called only after the manifest's
\* record was appended, synced and closed with OK status, and in every state,
\* a crash after any step included, CURRENT is absent or names a manifest
\* that holds one complete record which decodes.
C4_CurrentNamesCompleteManifest ==
    db.mode = "open" =>
        /\ \A i \in DOMAIN calls :
               calls[i].op = "rename_file" =>
                   AfterOkCalls(i, Manifest1, "append", "sync", "close")
        /\ LET current == disk.live[CurrentFileName(DbName)] IN
           current.exists =>
               \E n \in 1..MaxDescriptor :
                   /\ current.data = ManifestLine(n)
                   /\ ManifestComplete(disk.live[DescriptorFileName(DbName, n)])

\* new_db created the database and the process crashed afterwards with
\* CURRENT in place
C4_Witness ==
    /\ db.mode = "open"
    /\ db.pc = "crashed"
    /\ Renamed
    /\ ~ disk.initial[CurrentFileName(DbName)].exists
    /\ disk.live[CurrentFileName(DbName)].exists

\* C5: set_current_file calls rename_file only after append, sync and close
\* of the temp file returned OK; until the rename, and after a crash before
\* it, CURRENT is what it was before the call; after the rename it is the
\* manifest's base name and a newline, and never a part of that.
C5_CurrentReplacedAtomically ==
    /\ \A i \in DOMAIN calls :
           calls[i].op = "rename_file" =>
               AfterOkCalls(i, calls[i].file, "append", "sync", "close")
    /\ LET current  == disk.live[CurrentFileName(DbName)]
           previous == disk.initial[CurrentFileName(DbName)]
       IN  IF ~Renamed THEN current = previous
           ELSE IF db.pc = "crashed"
           THEN current \in {previous, Stored(ManifestLine(db.number))}
           ELSE current = Stored(ManifestLine(db.number))

\* set_current_file(2) has returned OK over a CURRENT that named manifest 1
C5_Witness ==
    /\ db.mode = "set_current_file"
    /\ db.pc = "done"
    /\ db.s = OkStatus
    /\ disk.initial[CurrentFileName(DbName)] = Stored(ManifestLine(1))
    /\ disk.live[CurrentFileName(DbName)] = Stored(ManifestLine(2))

\* C6: recover returns the InvalidArgument "exists" error only when CURRENT
\* exists and error_if_exists is set; with CURRENT present and the flag clear
\* it goes on to VersionSet::recover instead.
C6_ExistsErrorGatedOnFlag ==
    db.mode = "open" /\ db.pc = "done" =>
        /\ db.s = InvalidArgument("exists (error_if_exists is true)") =>
               /\ disk.initial[CurrentFileName(DbName)].exists
               /\ db.options.error_if_exists
        /\ ~ ( /\ db.db_lock_
               /\ disk.initial[CurrentFileName(DbName)].exists
               /\ ~db.options.error_if_exists )

\* the files of the directory other than LOCK are as they were before the call
OnlyLockTouched ==
    \A f \in FileNames \ {LockFileName(DbName)} : disk.live[f] = disk.initial[f]

\* recover is called with CURRENT absent and create_if_missing false
NoCreate ==
    /\ db.mode = "open"
    /\ ~ disk.initial[CurrentFileName(DbName)].exists
    /\ ~ db.options.create_if_missing

\* C7, as stated: with CURRENT absent and create_if_missing false, recover
\* (holding the lock) returns InvalidArgument and the directory is left with
\* no manifest and no CURRENT.
C7_AsStated ==
    NoCreate /\ db.db_lock_ /\ db.pc = "done" =>
        /\ db.s.code = "InvalidArgument"
        /\ ~ disk.live[CurrentFileName(DbName)].exists
        /\ \A n \in 1..MaxDescriptor : ~ disk.live[DescriptorFileName(DbName, n)].exists

\* C7, amended: with CURRENT absent and create_if_missing false, recover never
\* enters new_db or VersionSet::recover and creates, changes or removes no
\* manifest, temp or CURRENT file; once it holds the lock it returns
\* InvalidArgument "does not exist (create_if_missing is false)".
C7_NoCreateTouchesNothing ==
    NoCreate =>
        /\ db.pc \in {"create_dir", "lock_file", "file_exists", "done", "crashed"}
        /\ OnlyLockTouched
        /\ \A i \in DOMAIN calls :
               calls[i].op \in {"create_dir", "lock_file", "file_exists"}
        /\ db.db_lock_ /\ db.pc = "done" =>
               /\ db.s = InvalidArgument("does not exist (create_if_missing is false)")
               /\ ~ disk.live[CurrentFileName(DbName)].exists

\* recover has returned that error in a directory that holds the manifest of
\* a failed creation
C7_Witness ==
    /\ NoCreate
    /\ db.db_lock_
    /\ db.pc = "done"
    /\ db.s.code = "InvalidArgument"
    /\ disk.initial[Manifest1].exists

\* C8: every Env call of recover other than create_dir and lock_file comes
\* after an OK lock_file; when lock_file fails, recover returns its error,
\* db_lock_ stays empty and no manifest, temp or CURRENT file is created or
\* changed.
C8_LockBeforeFiles ==
    db.mode = "open" =>
        /\ \A i \in DOMAIN calls :
               calls[i].op \notin {"create_dir", "lock_file"} =>
                   \E j \in 1..(i - 1) :
                       calls[j] = [op |-> "lock_file", file |-> LockFileName(DbName),
                                   ok |-> TRUE]
        /\ (\E i \in DOMAIN calls : calls[i].op = "lock_file" /\ ~calls[i].ok) =>
               /\ db.pc \in {"done", "crashed"}
               /\ db.s = IoError("lock_file")
               /\ ~ db.db_lock_
               /\ disk.live = disk.initial
               /\ calls[Len(calls)].op = "lock_file"

\* lock_file failed in a directory that holds a database, and recover returned
C8_Witness ==
    /\ db.mode = "open"
    /\ db.pc = "done"
    /\ db.s = IoError("lock_file")
    /\ disk.initial[CurrentFileName(DbName)].exists
    /\ db.options.create_if_missing

\* set_current_file was called (alone, or by new_db) and the call that
\* contains it has returned a non-OK status
SetCurrentFileFailed ==
    /\ db.pc = "done"
    /\ db.s # OkStatus
    /\ \E i \in DOMAIN calls : calls[i].file = TmpName

\* CURRENT is what it was before the call
CurrentUntouched ==
    disk.live[CurrentFileName(DbName)] = disk.initial[CurrentFileName(DbName)]

NewDbFailed ==
    /\ db.mode = "open"
    /\ db.pc = "done"
    /\ db.s # OkStatus
    /\ \E i \in DOMAIN calls :
           calls[i] = [op |-> "new_writable_file", file |-> Manifest1, ok |-> TRUE]

\* C27: whenever new_db returns a non-OK status after it has created
\* MANIFEST-000001, whichever later step failed (add_record, sync, close or
\* setting CURRENT), the manifest is removed: it does not remain in the
\* directory unless a remove_file called on it failed.
C27_ManifestRemovedOnFailure ==
    NewDbFailed =>
        \/ ~ disk.live[Manifest1].exists
        \/ \E i \in DOMAIN calls :
               calls[i] = [op |-> "remove_file", file |-> Manifest1, ok |-> FALSE]

\* BytewiseComparator::name: "leveldb.BytewiseComparator", the name of the
\* comparator the options carry (the repository's only user comparator)
BytewiseComparatorName ==
    <<108, 101, 118, 101, 108, 100, 98, 46, 66, 121, 116, 101, 119, 105, 115, 101, 67, 111, 109, 112, 97, 114, 97, 116, 111, 114>>

\* new_db has appended the header and the payload of its record to the
\* manifest and has not removed it
FirstRecordWritten ==
    /\ db.mode = "open"
    /\ db.pc \in {"flush", "sync", "close"}

\* C28: the VersionEdit that new_db writes as the first record of
\* MANIFEST-000001 carries the name of the comparator supplied in the options
\* (the user comparator), log_number 0, next_file_number 2 and last_sequence 0.
C28_FirstEditNamesUserComparator ==
    FirstRecordWritten =>
        LET data == disk.live[Manifest1].data
            d    == DecodeFrom(SubSeq(data, HEADER_SIZE + 1, Len(data)))
        IN  /\ d.ok
            /\ d.edit.has_comparator_
            /\ d.edit.comparator_ = BytewiseComparatorName
            /\ d.edit.has_log_number_ /\ d.edit.log_number_ = 0
            /\ d.edit.has_next_file_number_ /\ d.edit.next_file_number_ = 2
            /\ d.edit.has_last_sequence_ /\ d.edit.last_sequence_ = 0

(***************************************************************************)
(* db/version_set.rs: find_largest_key, find_smallest_boundary_file and    *)
(* add_boundary_inputs.  A FileMetaData is [number, smallest, largest]     *)
(* with the two InternalKeys as their bytes; an Option is <<>> or <<x>>.   *)
(***************************************************************************)
\* InternalKeyComparator::compare2
Compare2(a, b) == InternalKeyCompare(a, b)

\* find_largest_key: the loop over files[1..], keeping the greater largest key
RECURSIVE FindLargestKeyFrom(_, _, _)
FindLargestKeyFrom(files, i, largest_key) ==
    IF i > Len(files) THEN largest_key
    ELSE FindLargestKeyFrom(files, i + 1,
             IF Compare2(files[i].largest, largest_key) = "Greater"
             THEN files[i].largest ELSE largest_key)

\* find_largest_key: None for no files
FindLargestKey(files) ==
    IF files = <<>> THEN <<>>
    ELSE <<FindLargestKeyFrom(files, 2, files[1].largest)>>

\* a boundary test that drops the comparison of the internal keys
IsBoundaryFile_SameUserKey(f, largest_key) ==
    ExtractUserKey(f.smallest) = ExtractUserKey(largest_key)

\* find_smallest_boundary_file, lines 178-179: f is a boundary file for largest_key
IsBoundaryFile(f, largest_key) ==
    /\ Compare2(f.smallest, largest_key) = "Greater"
    /\ BytewiseCompare(ExtractUserKey(f.smallest), ExtractUserKey(largest_key)) = "Equal"

\* a find_smallest_boundary_file that keeps the first boundary file it meets
RECURSIVE FindFirstBoundaryFileFrom(_, _, _, _)
FindFirstBoundaryFileFrom(level_files, i, largest_key, found) ==
    IF i > Len(level_files) THEN found
    ELSE FindFirstBoundaryFileFrom(level_files, i + 1, largest_key,
             IF IsBoundaryFile(level_files[i], largest_key) /\ found = <<>>
             THEN <<level_files[i]>> ELSE found)

\* find_smallest_boundary_file: the loop over level_files
RECURSIVE FindSmallestBoundaryFileFrom(_, _, _, _)
FindSmallestBoundaryFileFrom(level_files, i, largest_key, smallest_boundary_file) ==
    IF i > Len(level_files) THEN smallest_boundary_file
    ELSE FindSmallestBoundaryFileFrom(level_files, i + 1, largest_key,
             IF /\ IsBoundaryFile(level_files[i], largest_key)
                /\ (smallest_boundary_file = <<>> \/
                    Compare2(level_files[i].smallest,
                             smallest_boundary_file[1].smallest) = "Less")
             THEN <<level_files[i]>> ELSE smallest_boundary_file)

\* a find_smallest_boundary_file that keeps the boundary file whose smallest
\* key is greatest
RECURSIVE FindGreatestBoundaryFileFrom(_, _, _, _)
FindGreatestBoundaryFileFrom(level_files, i, largest_key, found) ==
    IF i > Len(level_files) THEN found
    ELSE FindGreatestBoundaryFileFrom(level_files, i + 1, largest_key,
             IF /\ IsBoundaryFile(level_files[i], largest_key)
                /\ (found = <<>> \/
                    Compare2(level_files[i].smallest, found[1].smallest) = "Greater")
             THEN <<level_files[i]>> ELSE found)

FindBoundaryFile_Greatest(level_files, largest_key) ==
    FindGreatestBoundaryFileFrom(level_files, 1, largest_key, <<>>)

FindBoundaryFile_First(level_files, largest_key) ==
    FindFirstBoundaryFileFrom(level_files, 1, largest_key, <<>>)

FindSmallestBoundaryFile(level_files, largest_key) ==
    FindSmallestBoundaryFileFrom(level_files, 1, largest_key, <<>>)

\* keys as in the tests: user key "100" at sequences 2..6, "300" at 1..2
BoundaryKeys ==
    {InternalKeyFrom(<<49, 48, 48>>, seq, TypeValue) : seq \in 2..6}
    \cup {InternalKeyFrom(<<51, 48, 48>>, seq, TypeValue) : seq \in 1..2}

\* create_file_meta_data of the tests
CreateFileMetaData(number, smallest, largest) ==
    [number |-> number, smallest |-> smallest, largest |-> largest]

\* the files over these keys whose smallest key is not after their largest
BoundaryFiles ==
    {f \in {CreateFileMetaData(1, s, l) : s \in BoundaryKeys, l \in BoundaryKeys} :
        Compare2(f.smallest, f.largest) # "Greater"}

\* the sequences over a set S of length at most n
SeqsUpTo(S, n) == UNION {[1..k -> S] : k \in 0..n}

\* the injective sequences of positions of level_files, at most MaxInputs long
InputPositions(level_files) ==
    {ps \in SeqsUpTo(1..Len(level_files), MaxInputs) :
        \A i \in 1..Len(ps), j \in 1..Len(ps) : i # j => ps[i] # ps[j]}

\* f1, f2, f3 of two_boundary_files_test
TestF1 ==
    CreateFileMetaData(1, InternalKeyFrom(<<49, 48, 48>>, 6, TypeValue),
                          InternalKeyFrom(<<49, 48, 48>>, 5, TypeValue))
TestF2 ==
    CreateFileMetaData(1, InternalKeyFrom(<<49, 48, 48>>, 2, TypeValue),
                          InternalKeyFrom(<<51, 48, 48>>, 1, TypeValue))
TestF3 ==
    CreateFileMetaData(1, InternalKeyFrom(<<49, 48, 48>>, 4, TypeValue),
                          InternalKeyFrom(<<49, 48, 48>>, 3, TypeValue))

\* the level files of two_boundary_files_test in every order
TestLevelFiles ==
    {fs \in [1..3 -> {TestF1, TestF2, TestF3}] : {fs[i] : i \in 1..3} =
                                                   {TestF1, TestF2, TestF3}}

\* the call add_boundary_inputs(icmp, level_files, compaction_files)
BoundaryCall(level_files, compaction_files) ==
    [pc |-> "start", level_files |-> level_files,
     compaction_files |-> compaction_files, original |-> compaction_files,
     largest_key |-> <<>>, steps |-> <<>>]

BndInit ==
    /\ SkipListUnused /\ MemTableUnused /\ DbUnused /\ OthersUnused
    /\ \/ \E level_files \in SeqsUpTo(BoundaryFiles, MaxLevelFiles) :
            \E ps \in InputPositions(level_files) :
              bnd = BoundaryCall(level_files, [i \in 1..Len(ps) |-> level_files[ps[i]]])
       \/ \E level_files \in TestLevelFiles : bnd = BoundaryCall(level_files, <<TestF1>>)
       \/ \E compaction_files \in SeqsUpTo(BoundaryFiles, MaxInputs) :
            bnd = BoundaryCall(<<>>, compaction_files)

\* add_boundary_inputs, lines 208-210 and 222: find_largest_key of the inputs
BndStart ==
    /\ bnd.pc = "start"
    /\ LET k == FindLargestKey(bnd.compaction_files) IN
       bnd' = IF k = <<>> THEN [bnd EXCEPT !.pc = "done"]
              ELSE [bnd EXCEPT !.pc = "search", !.largest_key = k]
    /\ UNCHANGED <<slVars, memVars, dbVars, ffVars, veVars, lgVars, ikVars, vsVars, utVars>>

\* a loop that stops after the first boundary file
BndSearch_Once ==
    /\ bnd.pc = "search"
    /\ LET b == FindSmallestBoundaryFile(bnd.level_files, bnd.largest_key[1]) IN
       bnd' = IF b = <<>> THEN [bnd EXCEPT !.pc = "done"]
              ELSE [bnd EXCEPT !.pc = "done",
                               !.compaction_files = Append(@, b[1]),
                               !.largest_key = <<b[1].largest>>,
                               !.steps = Append(@, [from |-> bnd.largest_key[1],
                                                    file |-> b[1]])]
    /\ UNCHANGED <<slVars, memVars, dbVars, ffVars, veVars, lgVars, ikVars, vsVars, utVars>>

\* a loop turn that puts the boundary file in front of the inputs
BndSearch_Prepend ==
    /\ bnd.pc = "search"
    /\ LET b == FindSmallestBoundaryFile(bnd.level_files, bnd.largest_key[1]) IN
       bnd' = IF b = <<>> THEN [bnd EXCEPT !.pc = "done"]
              ELSE [bnd EXCEPT !.compaction_files = <<b[1]>> \o @,
                               !.largest_key = <<b[1].largest>>,
                               !.steps = Append(@, [from |-> bnd.largest_key[1],
                                                    file |-> b[1]])]
    /\ UNCHANGED <<slVars, memVars, dbVars, ffVars, veVars, lgVars, ikVars, vsVars, utVars>>

\* add_boundary_inputs, lines 211-220: one turn of the loop; steps records
\* the key searched from and the file appended
BndSearch ==
    /\ bnd.pc = "search"
    /\ LET b == FindSmallestBoundaryFile(bnd.level_files, bnd.largest_key[1]) IN
       bnd' = IF b = <<>> THEN [bnd EXCEPT !.pc = "done"]
              ELSE [bnd EXCEPT !.compaction_files = Append(@, b[1]),
                               !.largest_key = <<b[1].largest>>,
                               !.steps = Append(@, [from |-> bnd.largest_key[1],
                                                    file |-> b[1]])]
    /\ UNCHANGED <<slVars, memVars, dbVars, ffVars, veVars, lgVars, ikVars, vsVars, utVars>>

BndNext == BndStart \/ BndSearch

SpecBoundary == BndInit /\ [][BndNext]_vars

\* the files of a list, as a set
FilesOf(files) == {files[i] : i \in 1..Len(files)}

\* f.smallest > u in internal-key order, with the user key of u
AfterWithSameUserKey(f, u) ==
    /\ Compare2(f.smallest, u) = "Greater"
    /\ ExtractUserKey(f.smallest) = ExtractUserKey(u)

\* the maximum largest key of a non-empty list of files
MaxLargest(files) ==
    CHOOSE k \in {f.largest : f \in FilesOf(files)} :
        \A f \in FilesOf(files) : Compare2(f.largest, k) # "Greater"

\* the key u of the exit condition: the largest key of the last appended
\* file, or the maximum largest key of the original inputs
ExitKey ==
    IF Len(bnd.compaction_files) > Len(bnd.original)
    THEN bnd.compaction_files[Len(bnd.compaction_files)].largest
    ELSE MaxLargest(bnd.original)

\* C9: after add_boundary_inputs returns on non-empty compaction_files, no
\* level file has a smallest key after u that shares u's user key, u being
\* the largest key of the last appended file (or the maximum largest key of
\* the original inputs when none was appended).
C9_NoBoundaryFileLeft ==
    (bnd.pc = "done" /\ bnd.original # <<>>) =>
        \A f \in FilesOf(bnd.level_files) : ~AfterWithSameUserKey(f, ExitKey)

\* a boundary file was appended, and a level file that shares the user key
\* of u starts at or before u
C9_Witness ==
    /\ bnd.pc = "done"
    /\ Len(bnd.compaction_files) > Len(bnd.original)
    /\ \E f \in FilesOf(bnd.level_files) :
           /\ ExtractUserKey(f.smallest) = ExtractUserKey(ExitKey)
           /\ Compare2(f.smallest, ExitKey) # "Greater"

\* the largest key current before the i-th append
CurrentLargest(i) ==
    IF i = 1 THEN MaxLargest(bnd.original) ELSE bnd.steps[i - 1].file.largest

\* C10: boundary files are appended after the original inputs one at a
\* time, each the level file whose smallest key is least, in internal-key
\* order, among those after the current largest key with its user key; with
\* level files starting at (100, 6), (100, 2), (100, 4) in any order and the
\* seq-6 file as the only input the result is [seq-6, seq-4, seq-2].
C10_AppendsLeastBoundaryFile ==
    /\ bnd.compaction_files =
           bnd.original \o [i \in 1..Len(bnd.steps) |-> bnd.steps[i].file]
    /\ \A i \in 1..Len(bnd.steps) :
           LET b == bnd.steps[i].file IN
           /\ bnd.steps[i].from = CurrentLargest(i)
           /\ b \in FilesOf(bnd.level_files)
           /\ AfterWithSameUserKey(b, CurrentLargest(i))
           /\ \A f \in FilesOf(bnd.level_files) :
                  AfterWithSameUserKey(f, CurrentLargest(i))
                      => Compare2(b.smallest, f.smallest) # "Greater"
    /\ (/\ bnd.pc = "done"
        /\ bnd.level_files \in TestLevelFiles
        /\ bnd.original = <<TestF1>>)
           => bnd.compaction_files = <<TestF1, TestF3, TestF2>>

\* the level files pushed as f2, f1, f3, an order the test does not use
C10_Witness ==
    /\ bnd.pc = "done"
    /\ bnd.level_files = <<TestF2, TestF1, TestF3>>
    /\ bnd.original = <<TestF1>>
    /\ bnd.compaction_files = <<TestF1, TestF3, TestF2>>

\* user key "100" at sequences 4..6 and "300" at 1: enough for a boundary
\* file and for a file that ends at another user key
LiveKeys ==
    {InternalKeyFrom(<<49, 48, 48>>, seq, TypeValue) : seq \in 4..6}
    \cup {InternalKeyFrom(<<51, 48, 48>>, 1, TypeValue)}

\* the calls whose files range over LiveKeys, and those of two_boundary_files_test
BndLiveInit ==
    /\ SkipListUnused /\ MemTableUnused /\ DbUnused /\ OthersUnused
    /\ \/ \E level_files \in SeqsUpTo({f \in BoundaryFiles :
                                           {f.smallest, f.largest} \subseteq LiveKeys},
                                      MaxLevelFiles) :
            \E ps \in InputPositions(level_files) :
              bnd = BoundaryCall(level_files, [i \in 1..Len(ps) |-> level_files[ps[i]]])
       \/ \E level_files \in TestLevelFiles : bnd = BoundaryCall(level_files, <<TestF1>>)

\* add_boundary_inputs runs to completion once called: the loop of lines
\* 211-220 is the only thing between the call and the return
SpecBoundaryLive == BndLiveInit /\ [][BndNext]_vars /\ WF_vars(BndNext)

\* every appended boundary file ends after the key it was searched from, no
\* file is appended twice, and no more files are appended than the level has
AppendsAdvance ==
    /\ \A i \in 1..Len(bnd.steps) :
          Compare2(bnd.steps[i].file.largest, bnd.steps[i].from) = "Greater"
    /\ \A i, j \in 1..Len(bnd.steps) :
          i < j => bnd.steps[i].file # bnd.steps[j].file
    /\ Len(bnd.steps) <= Len(bnd.level_files)

\* C35: add_boundary_inputs terminates on every finite level_files whose
\* files have smallest <= largest, and appends each level file at most once:
\* the tracked largest key strictly increases with every appended file.
C35_TerminatesAppendingOnce ==
    /\ []AppendsAdvance
    /\ <>(bnd.pc = "done")

\* the call returned after appending two boundary files
C35_Witness ==
    /\ bnd.pc = "done"
    /\ Len(bnd.steps) = 2
    /\ \A f \in FilesOf(bnd.level_files) :
          Compare2(f.smallest, f.largest) # "Greater"

\* the original inputs are the first files of compaction_files, in order
OriginalIsPrefix ==
    /\ Len(bnd.compaction_files) >= Len(bnd.original)
    /\ SubSeq(bnd.compaction_files, 1, Len(bnd.original)) = bnd.original

\* no level file's smallest key has the user key of the inputs' largest key
NoLevelFileSharesUserKey ==
    \A f \in FilesOf(bnd.level_files) :
        ExtractUserKey(f.smallest) # ExtractUserKey(MaxLargest(bnd.original))

\* the cases in which nothing is appended
ReturnsUnchanged ==
    (/\ bnd.pc = "done"
     /\ \/ bnd.original = <<>>
        \/ bnd.level_files = <<>>
        \/ NoLevelFileSharesUserKey)
        => bnd.compaction_files = bnd.original

\* C36: add_boundary_inputs never modifies level_files and only appends to
\* compaction_files: the original inputs stay an unchanged prefix in their
\* order, and compaction_files is returned unchanged when it is empty, when
\* level_files is empty, or when no level file's smallest key shares the user
\* key of the inputs' largest key.
C36_OnlyAppends ==
    /\ [](OriginalIsPrefix /\ ReturnsUnchanged)
    /\ [][/\ bnd'.level_files = bnd.level_files
          /\ Len(bnd'.compaction_files) >= Len(bnd.compaction_files)
          /\ SubSeq(bnd'.compaction_files, 1, Len(bnd.compaction_files))
                = bnd.compaction_files]_vars

\* a boundary file was appended behind the inputs
C36_Witness ==
    /\ bnd.pc = "done"
    /\ bnd.original # <<>>
    /\ Len(bnd.compaction_files) > Len(bnd.original)
    /\ ~NoLevelFileSharesUserKey

\* nothing was appended because no level file shares the user key
C36_WitnessUnchanged ==
    /\ bnd.pc = "done"
    /\ bnd.original # <<>>
    /\ NoLevelFileSharesUserKey
    /\ Len(bnd.level_files) = 2

\* inputs came back unchanged from an empty level
C36_WitnessEmptyLevel ==
    /\ bnd.pc = "done"
    /\ bnd.level_files = <<>>
    /\ Len(bnd.compaction_files) = 2

\* the sequence number in the tag of an internal key
SequenceOf(ikey) == ExtractTag(ikey) \div 256

\* the level files that are boundary files for the key the i-th turn searched from
CandidatesAt(i) ==
    {f \in FilesOf(bnd.level_files) : AfterWithSameUserKey(f, bnd.steps[i].from)}

\* C11 as stated: among several boundary files for the same user key,
\* find_smallest_boundary_file chooses the one whose smallest key has the
\* lowest (oldest) sequence number.
C11_AsStated ==
    \A i \in 1..Len(bnd.steps) :
        \A f \in CandidatesAt(i) :
            SequenceOf(bnd.steps[i].file.smallest) <= SequenceOf(f.smallest)

\* C11: among several boundary files for the same user key,
\* find_smallest_boundary_file chooses the one whose smallest key is least
\* in internal-key order, which is the one with the highest (newest)
\* sequence number at its smallest key.
C11_ChoosesNewestSequence ==
    \A i \in 1..Len(bnd.steps) :
        \A f \in CandidatesAt(i) :
            SequenceOf(bnd.steps[i].file.smallest) >= SequenceOf(f.smallest)

\* a turn of the loop that had boundary files with different sequence numbers
C11_Witness ==
    \E i \in 1..Len(bnd.steps) :
        \E f \in CandidatesAt(i) :
            SequenceOf(f.smallest) < SequenceOf(bnd.steps[i].file.smallest)

(***************************************************************************)
(* db/version_set.rs: find_file, after_file, before_file and               *)
(* some_file_overlaps_range.                                               *)
(***************************************************************************)
\* a find_file that takes a largest key equal to the target for a smaller one
RECURSIVE FindFileLoop_EqualIsLess(_, _, _, _)
FindFileLoop_EqualIsLess(files, key, left, right) ==
    IF left < right
    THEN LET mid == (left + right) \div 2
             f == files[mid + 1]
         IN  IF InternalKeyCompare(f.largest, key) # "Greater"
             THEN FindFileLoop_EqualIsLess(files, key, mid + 1, right)
             ELSE FindFileLoop_EqualIsLess(files, key, left, mid)
    ELSE right

\* find_file, lines 20-33: the binary search; files[mid] is files[mid + 1] here
RECURSIVE FindFileLoop(_, _, _, _)
FindFileLoop(files, key, left, right) ==
    IF left < right
    THEN LET mid == (left + right) \div 2
             f == files[mid + 1]
         IN  IF InternalKeyCompare(f.largest, key) = "Less"
             THEN FindFileLoop(files, key, mid + 1, right)
             ELSE FindFileLoop(files, key, left, mid)
    ELSE right

\* find_file
FindFile(files, key) == FindFileLoop(files, key, 0, Len(files))

\* after_file
AfterFile(user_key, f) ==
    /\ user_key # <<>>
    /\ BytewiseCompare(user_key, ExtractUserKey(f.largest)) = "Greater"

\* before_file
BeforeFile(user_key, f) ==
    /\ user_key # <<>>
    /\ BytewiseCompare(user_key, ExtractUserKey(f.smallest)) = "Less"

\* the bytes of pack_sequence_and_type(MAX_SEQUENCE_NUMBER, VALUE_TYPE_FOR_SEEK),
\* ((2^56 - 1) << 8) | 1, as encode_fixed64 writes them
MaxSequenceTag == <<ValueTypeForSeek, 255, 255, 255, 255, 255, 255, 255>>

\* a small_key built with sequence number 0
SmallKey_MinSequence(smallest_user_key) ==
    InternalKeyFrom(smallest_user_key, 0, ValueTypeForSeek)

\* some_file_overlaps_range, line 71: the earliest internal key of a user key
SmallKey(smallest_user_key) == smallest_user_key \o MaxSequenceTag

\* some_file_overlaps_range, lines 56-65: the scan over all files
RECURSIVE OverlapsScan(_, _, _, _)
OverlapsScan(files, i, smallest_user_key, largest_user_key) ==
    IF i > Len(files) THEN FALSE
    ELSE IF AfterFile(smallest_user_key, files[i]) \/
            BeforeFile(largest_user_key, files[i])
         THEN OverlapsScan(files, i + 1, smallest_user_key, largest_user_key)
         ELSE TRUE

\* some_file_overlaps_range
SomeFileOverlapsRange(disjoint_sorted_files, files, smallest_user_key, largest_user_key) ==
    IF ~disjoint_sorted_files
    THEN OverlapsScan(files, 1, smallest_user_key, largest_user_key)
    ELSE LET index == IF smallest_user_key # <<>>
                      THEN FindFile(files, SmallKey(smallest_user_key))
                      ELSE 0
         IN  IF index >= Len(files) THEN FALSE
             ELSE ~BeforeFile(largest_user_key, files[index + 1])

\* the user keys "a", "ab", "b" of the files and of the arguments
FindUserKeys == {<<97>>, <<97, 98>>, <<98>>}

\* the internal keys of the files: sequence 1, 2 or MAX_SEQUENCE_NUMBER
FindKeys ==
    {InternalKeyFrom(u, seq, TypeValue) : u \in FindUserKeys, seq \in 1..2}
    \cup {u \o MaxSequenceTag : u \in FindUserKeys}

\* the files whose smallest key is not after their largest (FindFileTest::add)
FindFiles ==
    {f \in {CreateFileMetaData(1, s, l) : s \in FindKeys, l \in FindKeys} :
        InternalKeyCompare(f.smallest, f.largest) # "Greater"}

\* sorted files with disjoint ranges: each file ends at or before the start
\* of the next (the tests let two neighbours meet in one key)
DisjointSorted(files) ==
    \A i \in 1..Len(files) - 1 :
        InternalKeyCompare(files[i].largest, files[i + 1].smallest) # "Greater"

DisjointSortedLists == {files \in SeqsUpTo(FindFiles, MaxFiles) : DisjointSorted(files)}

\* the same files pushed in the opposite order
Reversed(files) == [i \in 1..Len(files) |-> files[Len(files) + 1 - i]]

\* the target keys of find: the keys of the files and each user key at sequence 3
FindTargets == FindKeys \cup {InternalKeyFrom(u, 3, TypeValue) : u \in FindUserKeys}

\* the range ends of overlaps: a user key, or empty
RangeEnds == FindUserKeys \cup {<<>>}

FfInit ==
    /\ SkipListUnused /\ MemTableUnused /\ DbUnused /\ BoundaryUnused
    /\ VersionEditUnused /\ LogUnused /\ CompareUnused /\ VersionSetUnused /\ UtilUnused
    /\ \/ \E files \in DisjointSortedLists, key \in FindTargets :
            ff = [op |-> "find_file", pc |-> "call", files |-> files, key |-> key,
                  disjoint_sorted_files |-> TRUE,
                  smallest_user_key |-> <<>>, largest_user_key |-> <<>>,
                  index |-> 0, overlaps |-> FALSE]
       \/ \E files \in DisjointSortedLists, disjoint \in BOOLEAN,
             s \in RangeEnds, e \in RangeEnds :
            ff = [op |-> "some_file_overlaps_range", pc |-> "call",
                  files |-> IF disjoint THEN files ELSE Reversed(files),
                  key |-> <<>>, disjoint_sorted_files |-> disjoint,
                  smallest_user_key |-> s, largest_user_key |-> e,
                  index |-> 0, overlaps |-> FALSE]

\* FindFileTest::find
FfFind ==
    /\ ff.op = "find_file" /\ ff.pc = "call"
    /\ ff' = [ff EXCEPT !.pc = "done", !.index = FindFile(ff.files, ff.key)]
    /\ UNCHANGED <<slVars, memVars, dbVars, bndVars, veVars, lgVars, ikVars, vsVars, utVars>>

\* FindFileTest::overlaps
FfOverlaps ==
    /\ ff.op = "some_file_overlaps_range" /\ ff.pc = "call"
    /\ ff' = [ff EXCEPT !.pc = "done",
                        !.overlaps = SomeFileOverlapsRange(ff.disjoint_sorted_files,
                            ff.files, ff.smallest_user_key, ff.largest_user_key)]
    /\ UNCHANGED <<slVars, memVars, dbVars, bndVars, veVars, lgVars, ikVars, vsVars, utVars>>

FfNext == FfFind \/ FfOverlaps

SpecFindFile == FfInit /\ [][FfNext]_vars

\* a < b and a >= b in internal-key order
KeyBefore(a, b) == InternalKeyCompare(a, b) = "Less"

\* i splits the files into those ending before key and those ending at or after it
SplitsAt(files, key, i) ==
    /\ \A j \in 1..i : KeyBefore(files[j].largest, key)
    /\ \A j \in i + 1..Len(files) : ~KeyBefore(files[j].largest, key)

\* C12: for sorted files with disjoint ranges and an internal key K,
\* find_file returns the unique index i with files[j].largest < K for all
\* j < i and files[j].largest >= K for all j >= i: files.len() when no file
\* has largest >= K, and 0 for the empty list.
C12_FindFileSplits ==
    (ff.op = "find_file" /\ ff.pc = "done") =>
        /\ ff.index \in 0..Len(ff.files)
        /\ SplitsAt(ff.files, ff.key, ff.index)
        /\ \A i \in 0..Len(ff.files) : SplitsAt(ff.files, ff.key, i) => i = ff.index
        /\ (\A j \in 1..Len(ff.files) : KeyBefore(ff.files[j].largest, ff.key))
               => ff.index = Len(ff.files)
        /\ ff.files = <<>> => ff.index = 0

\* a search that ends strictly inside the list, at a file whose largest key
\* is the target itself
C12_Witness ==
    /\ ff.op = "find_file" /\ ff.pc = "done"
    /\ ff.index > 0 /\ ff.index < Len(ff.files)
    /\ ff.files[ff.index + 1].largest = ff.key

\* a <= b for user keys
UserKeyAtMost(a, b) == BytewiseCompare(a, b) # "Greater"

\* some user key lies in [s, e] and in [f.smallest.user_key, f.largest.user_key],
\* an empty s or e leaving that side of [s, e] unbounded
RangeIntersects(f, s, e) ==
    /\ s = <<>> \/ e = <<>> \/ UserKeyAtMost(s, e)
    /\ s = <<>> \/ UserKeyAtMost(s, ExtractUserKey(f.largest))
    /\ e = <<>> \/ UserKeyAtMost(ExtractUserKey(f.smallest), e)

\* the answer of some_file_overlaps_range(true, ..) is that of the range test
OverlapsIffIntersects ==
    ff.overlaps <=> \E f \in FilesOf(ff.files) :
                        RangeIntersects(f, ff.smallest_user_key, ff.largest_user_key)

\* a returned call some_file_overlaps_range(true, L, s, e)
OverlapsReturned ==
    ff.op = "some_file_overlaps_range" /\ ff.pc = "done" /\ ff.disjoint_sorted_files

\* s and e are the ends of a range: s <= e unless one of them is empty
IsRange(s, e) == s = <<>> \/ e = <<>> \/ UserKeyAtMost(s, e)

\* C13 as stated: for sorted disjoint L and every pair of user keys (s, e),
\* some_file_overlaps_range(true, L, s, e) is true iff some file's user-key
\* range intersects [s, e] (empty s or e unbounded), whatever the sequence
\* numbers; it is false for the empty list.
C13_AsStated ==
    OverlapsReturned =>
        /\ OverlapsIffIntersects
        /\ ff.files = <<>> => ~ff.overlaps

\* C13: the same for every pair of user keys (s, e) with s <= e or with an
\* empty s or e.
C13_OverlapsIffIntersects ==
    (OverlapsReturned /\ IsRange(ff.smallest_user_key, ff.largest_user_key)) =>
        /\ OverlapsIffIntersects
        /\ ff.files = <<>> => ~ff.overlaps

\* a range [s, s] met by a file that ends at user key s with the greatest
\* sequence number and starts a later file of the list
C13_Witness ==
    /\ OverlapsReturned /\ ff.overlaps
    /\ ff.smallest_user_key # <<>>
    /\ ff.largest_user_key = ff.smallest_user_key
    /\ Len(ff.files) = 2
    /\ ~RangeIntersects(ff.files[1], ff.smallest_user_key, ff.largest_user_key)
    /\ ff.files[2].largest = ff.smallest_user_key \o MaxSequenceTag

(***************************************************************************)
(* db/version_edit.rs: edits built through the setters, encoded, and       *)
(* decoded again; encodings that are cut short or extended by one more     *)
(* entry before decode_from reads them.                                    *)
(***************************************************************************)
\* the comparator names "foo" and "é"
EditNames == {<<102, 111, 111>>, <<195, 169>>}

\* the levels passed to the setters
EditLevels == {-1, 3, NUM_LEVELS}

\* the internal keys passed to the setters
EditKeys == {InternalKeyFrom(<<120>>, 5, TypeValue),
             InternalKeyFrom(<<102, 111, 111>>, 300, TypeDeletion)}

\* the file, log and sequence numbers passed to the setters
EditNumbers == {5, 200}

VeInit ==
    /\ SkipListUnused /\ MemTableUnused /\ DbUnused /\ BoundaryUnused
    /\ FindFileUnused /\ LogUnused /\ CompareUnused /\ VersionSetUnused /\ UtilUnused
    /\ ve = [pc |-> "build", edit |-> VersionEditNew, calls |-> 0,
             encoded |-> <<>>, input |-> <<>>, tamper |-> [kind |-> "none"],
             parsed |-> [ok |-> FALSE, edit |-> VersionEditNew, msg |-> ""],
             encoded2 |-> <<>>]

\* one more setter call may be made on the edit
CanSet == ve.pc = "build" /\ ve.calls < MaxSetterCalls

VeSetComparatorName ==
    /\ CanSet
    /\ \E name \in EditNames :
         ve' = [ve EXCEPT !.edit = SetComparatorName(ve.edit, name),
                          !.calls = @ + 1]
    /\ UNCHANGED <<slVars, memVars, dbVars, bndVars, ffVars, lgVars, ikVars, vsVars, utVars>>

VeSetLogNumber ==
    /\ CanSet
    /\ \E num \in EditNumbers :
         ve' = [ve EXCEPT !.edit = SetLogNumber(ve.edit, num),
                          !.calls = @ + 1]
    /\ UNCHANGED <<slVars, memVars, dbVars, bndVars, ffVars, lgVars, ikVars, vsVars, utVars>>

VeSetPrevLogNumber ==
    /\ CanSet
    /\ \E num \in EditNumbers :
         ve' = [ve EXCEPT !.edit = SetPrevLogNumber(ve.edit, num),
                          !.calls = @ + 1]
    /\ UNCHANGED <<slVars, memVars, dbVars, bndVars, ffVars, lgVars, ikVars, vsVars, utVars>>

VeSetNextFile ==
    /\ CanSet
    /\ \E num \in EditNumbers :
         ve' = [ve EXCEPT !.edit = SetNextFile(ve.edit, num),
                          !.calls = @ + 1]
    /\ UNCHANGED <<slVars, memVars, dbVars, bndVars, ffVars, lgVars, ikVars, vsVars, utVars>>

VeSetLastSequence ==
    /\ CanSet
    /\ \E num \in EditNumbers :
         ve' = [ve EXCEPT !.edit = SetLastSequence(ve.edit, num),
                          !.calls = @ + 1]
    /\ UNCHANGED <<slVars, memVars, dbVars, bndVars, ffVars, lgVars, ikVars, vsVars, utVars>>

VeSetCompactPointer ==
    /\ CanSet
    /\ \E level \in EditLevels, key \in EditKeys :
         ve' = [ve EXCEPT !.edit = SetCompactPointer(ve.edit, level, key),
                          !.calls = @ + 1]
    /\ UNCHANGED <<slVars, memVars, dbVars, bndVars, ffVars, lgVars, ikVars, vsVars, utVars>>

VeRemoveFile ==
    /\ CanSet
    /\ \E level \in EditLevels, file \in EditNumbers :
         ve' = [ve EXCEPT !.edit = EditRemoveFile(ve.edit, level, file),
                          !.calls = @ + 1]
    /\ UNCHANGED <<slVars, memVars, dbVars, bndVars, ffVars, lgVars, ikVars, vsVars, utVars>>

VeAddFile ==
    /\ CanSet
    /\ \E level \in EditLevels, smallest \in EditKeys :
         ve' = [ve EXCEPT !.edit = AddFile(ve.edit, level, 200, 20000, smallest,
                                  InternalKeyFrom(<<122, 111, 111>>, 5, TypeDeletion)),
                          !.calls = @ + 1]
    /\ UNCHANGED <<slVars, memVars, dbVars, bndVars, ffVars, lgVars, ikVars, vsVars, utVars>>

\* test_encode_decode, lines 301-302: edit.encode_to(&mut encoded)
VeEncode ==
    /\ ve.pc = "build"
    /\ ve' = [ve EXCEPT !.pc = "encoded", !.encoded = EncodeTo(ve.edit),
                        !.input = EncodeTo(ve.edit)]
    /\ UNCHANGED <<slVars, memVars, dbVars, bndVars, ffVars, lgVars, ikVars, vsVars, utVars>>

\* the bytes may be changed before they are decoded
CanTamper ==
    ve.pc = "encoded" /\ ve.tamper.kind = "none" /\ ve.calls <= MaxTamperedCalls

\* the input ends early: only its first n bytes are read
VeTruncate ==
    /\ CanTamper
    /\ \E n \in 0..Len(ve.encoded) - 1 :
         ve' = [ve EXCEPT !.input = Range(ve.encoded, 0, n),
                          !.tamper = [kind |-> "truncated", cut |-> n]]
    /\ UNCHANGED <<slVars, memVars, dbVars, bndVars, ffVars, lgVars, ikVars, vsVars, utVars>>

\* u32 values for an encoded level, as bits 0..30 and bit 31: 0, 6, 7, 8,
\* 127, 128, 2^31 - 1, 2^31, 2^31 + 3 and 2^32 - 1
LevelValues ==
    {[value |-> v, top |-> 0] : v \in {0, 6, 7, 8, 127, 128, 2147483647}}
    \cup {[value |-> v, top |-> 1] : v \in {0, 3, 2147483647}}

\* an entry with a level, as encode_to lays it out, but with the level l
LevelEntry(kind, l) ==
    LET level == EncodeVarint32U(l.value, l.top)
        key   == PutLengthPrefixedSlice(InternalKeyFrom(<<120>>, 5, TypeValue))
    IN  CASE kind = COMPACT_POINTER ->
               EncodeVarint32(COMPACT_POINTER) \o level \o key
          [] kind = DELETED_FILE ->
               EncodeVarint32(DELETED_FILE) \o level \o EncodeVarint64(200)
          [] kind = NEW_FILE ->
               EncodeVarint32(NEW_FILE) \o level \o EncodeVarint64(200)
               \o EncodeVarint64(200) \o key \o key

\* one more entry follows whose encoded level is any u32
VeAppendLevelEntry ==
    /\ CanTamper
    /\ \E kind \in {COMPACT_POINTER, DELETED_FILE, NEW_FILE}, l \in LevelValues :
         ve' = [ve EXCEPT !.input = ve.encoded \o LevelEntry(kind, l),
                          !.tamper = [kind |-> "level", entry |-> kind, level |-> l]]
    /\ UNCHANGED <<slVars, memVars, dbVars, bndVars, ffVars, lgVars, ikVars, vsVars, utVars>>

\* u32 values for a tag: 0, 8, 10, 255, 256 + t for a tag t, 256 + 8,
\* 65536 + 5, and 2^31 + 6
TagValues ==
    {[value |-> v, top |-> 0] :
        v \in {0, 8, 10, 255, 257, 258, 259, 260, 261, 262, 263, 264, 265, 65541}}
    \cup {[value |-> 6, top |-> 1]}

\* a payload that is complete for the field the tag byte t selects
PayloadFor(t) ==
    LET key == PutLengthPrefixedSlice(InternalKeyFrom(<<120>>, 5, TypeValue)) IN
    CASE t = COMPARATOR -> PutLengthPrefixedSlice(<<102, 111, 111>>)
      [] t \in {LOG_NUMBER, PREV_LOG_NUMBER, NEXT_FILE_NUMBER, LAST_SEQUENCE} ->
           EncodeVarint64(200)
      [] t = COMPACT_POINTER -> EncodeVarint32(3) \o key
      [] t = DELETED_FILE -> EncodeVarint32(3) \o EncodeVarint64(200)
      [] t = NEW_FILE -> EncodeVarint32(3) \o EncodeVarint64(200)
                         \o EncodeVarint64(200) \o key \o key
      [] OTHER -> EncodeVarint64(200)

\* one more field follows whose tag is a u32 outside the tag numbers
VeAppendTag ==
    /\ CanTamper
    /\ \E t \in TagValues :
         ve' = [ve EXCEPT !.input = ve.encoded \o EncodeVarint32U(t.value, t.top)
                                       \o PayloadFor(AsU8(t.value)),
                          !.tamper = [kind |-> "tag", tag |-> t]]
    /\ UNCHANGED <<slVars, memVars, dbVars, bndVars, ffVars, lgVars, ikVars, vsVars, utVars>>

\* bytes follow that are no complete varint32: one continuation byte, or five
VeAppendTrailing ==
    /\ CanTamper
    /\ \E bytes \in {<<128>>, <<255, 255, 255, 255, 255>>} :
         ve' = [ve EXCEPT !.input = ve.encoded \o bytes,
                          !.tamper = [kind |-> "trailing"]]
    /\ UNCHANGED <<slVars, memVars, dbVars, bndVars, ffVars, lgVars, ikVars, vsVars, utVars>>

\* test_encode_decode, lines 303-306: decode_from, then encode_to of the result
VeDecode ==
    /\ ve.pc = "encoded"
    /\ LET parsed == DecodeFrom(ve.input) IN
       ve' = [ve EXCEPT !.pc = "decoded", !.parsed = parsed,
                        !.encoded2 = IF parsed.ok THEN EncodeTo(parsed.edit) ELSE <<>>]
    /\ UNCHANGED <<slVars, memVars, dbVars, bndVars, ffVars, lgVars, ikVars, vsVars, utVars>>

VeNext ==
    \/ VeSetComparatorName \/ VeSetLogNumber \/ VeSetPrevLogNumber
    \/ VeSetNextFile \/ VeSetLastSequence \/ VeSetCompactPointer
    \/ VeRemoveFile \/ VeAddFile \/ VeEncode
    \/ VeTruncate \/ VeAppendLevelEntry \/ VeAppendTag \/ VeAppendTrailing
    \/ VeDecode

SpecVersionEdit == VeInit /\ [][VeNext]_vars

\* the levels an edit holds
LevelsOf(e) ==
    {e.compact_pointers_[i][1] : i \in 1..Len(e.compact_pointers_)}
    \cup {f[1] : f \in e.deleted_files_}
    \cup {e.new_files_[i].level : i \in 1..Len(e.new_files_)}

\* the encoding of the edit was decoded as it was written
RoundTripDone == ve.pc = "decoded" /\ ve.tamper.kind = "none"

\* decode_from succeeded with an edit equal to the one encoded, and the
\* second encoding is the first
RoundTrips ==
    /\ ve.parsed.ok
    /\ ve.parsed.edit = ve.edit
    /\ ve.encoded2 = ve.encoded

\* C14 as stated: for every VersionEdit e built through its setters,
\* decode_from(encode_to(e)) succeeds and yields an edit equal to e field by
\* field, and encoding the decoded edit yields the bytes of the first encoding.
C14_AsStated == RoundTripDone => RoundTrips

\* C14: the same for every VersionEdit built through its setters with
\* levels in 0..NUM_LEVELS - 1.
C14_RoundTripInRange ==
    (RoundTripDone /\ LevelsOf(ve.edit) \subseteq 0..NUM_LEVELS - 1) => RoundTrips

\* an edit with a new file and a compact pointer went through the round trip
C14_Witness ==
    /\ RoundTripDone
    /\ LevelsOf(ve.edit) \subseteq 0..NUM_LEVELS - 1
    /\ Len(ve.edit.new_files_) = 1
    /\ Len(ve.edit.compact_pointers_) = 1
    /\ ve.encoded2 = ve.encoded

\* C15: decode_from returns Corruption for every compact-pointer,
\* deleted-file or new-file entry whose encoded level is NUM_LEVELS or
\* greater, up to 2^32 - 1, and no decoded edit holds a level outside 0..6.
C15_LevelsBelowNumLevels ==
    ve.pc = "decoded" =>
        /\ (/\ ve.tamper.kind = "level"
            /\ (ve.tamper.level.top = 1 \/ ve.tamper.level.value >= NUM_LEVELS))
               => ~ve.parsed.ok
        /\ ve.parsed.ok => LevelsOf(ve.parsed.edit) \subseteq 0..NUM_LEVELS - 1

\* the tag numbers of the format
TagNumbers ==
    {COMPARATOR, LOG_NUMBER, NEXT_FILE_NUMBER, LAST_SEQUENCE, COMPACT_POINTER,
     DELETED_FILE, NEW_FILE, PREV_LOG_NUMBER}

\* C16: decode_from returns Corruption for every input that contains a tag
\* value outside {1, 2, 3, 4, 5, 6, 7, 9}, the whole 32-bit value counting.
C16_UnknownTagsRejected ==
    (/\ ve.pc = "decoded"
     /\ ve.tamper.kind = "tag"
     /\ ~(ve.tamper.tag.top = 0 /\ ve.tamper.tag.value \in TagNumbers))
        => ~ve.parsed.ok

\* what follows the n-th of the parts a payload is made of, each part a
\* varint32 ("l"), a varint64 ("v") or a length-prefixed slice ("s"); ok is
\* FALSE when one is cut
RECURSIVE AfterParts(_, _)
AfterParts(parts, input) ==
    IF parts = <<>> THEN [ok |-> TRUE, rest |-> input]
    ELSE Only({IF r.ok THEN AfterParts(Tail(parts), r.rest)
               ELSE [ok |-> FALSE, rest |-> <<>>] :
               r \in {CASE Head(parts) = "l" -> GetVarint32(input)
                        [] Head(parts) = "v" -> GetVarint64(input)
                        [] OTHER -> GetLengthPrefixedSlice(input)}})

\* the parts of the payload of the field with tag number t
PartsOf(t) ==
    CASE t = COMPARATOR -> <<"s">>
      [] t = COMPACT_POINTER -> <<"l", "s">>
      [] t = DELETED_FILE -> <<"l", "v">>
      [] t = NEW_FILE -> <<"l", "v", "v", "s", "s">>
      [] OTHER -> <<"v">>

\* the input is a sequence of complete fields, each a tag number of the
\* format followed by the whole payload of that field
RECURSIVE IsFieldSequence(_)
IsFieldSequence(input) ==
    \/ input = <<>>
    \/ \E t \in {GetVarint32(input)} :
         /\ t.ok /\ t.top = 0 /\ t.value \in TagNumbers
         /\ \E p \in {AfterParts(PartsOf(t.value), t.rest)} :
              p.ok /\ IsFieldSequence(p.rest)

\* C17: decode_from returns Corruption and no edit whenever the input ends
\* inside a field or with bytes that are no complete tag; it returns an edit
\* only when the input is exactly a sequence of complete tagged fields.
C17_OnlyCompleteFieldSequences ==
    ve.pc = "decoded" =>
        /\ ve.parsed.ok => IsFieldSequence(ve.input)
        /\ ve.tamper.kind = "trailing" => ~ve.parsed.ok
        /\ ~ve.parsed.ok => ve.parsed.msg # ""

(***************************************************************************)
(* db/log_writer.rs: add_record on records of any length.  A record is     *)
(* kept as its length; the destination as its length (pos) and the         *)
(* segments appended to it.                                                *)
(***************************************************************************)
\* record lengths: empty, one byte, one that leaves 11 bytes of the block,
\* one that leaves exactly a header, one that leaves 4 bytes, one that fills
\* the block, one byte more than a block holds, and more than two blocks
RecordLengths == {0, 1, 32750, 32754, 32757, 32761, 32762, 65527}

\* add_record, line 45: leftover
Leftover(block_offset) == BLOCK_SIZE - block_offset

\* a writer that never fills the trailer
TrailerLength_Unfilled(block_offset) == 0

\* add_record, lines 46-52: the number of zero bytes appended as the trailer
TrailerLength(block_offset) ==
    IF Leftover(block_offset) < HEADER_SIZE THEN Leftover(block_offset) ELSE 0

\* add_record, lines 46-54: block_offset_ after the switch to a new block
SwitchBlock(block_offset) ==
    IF Leftover(block_offset) < HEADER_SIZE THEN 0 ELSE block_offset

\* add_record, lines 59-70: the length and type of the next fragment when
\* left bytes of the record remain
FragmentOf(block_offset, left, begin) ==
    LET avail           == BLOCK_SIZE - block_offset - HEADER_SIZE
        fragment_length == IF left < avail THEN left ELSE avail
    IN  [type   |-> FragmentType(begin, left = fragment_length),
         length |-> fragment_length]

\* Writer::new on an empty destination
LgInit ==
    /\ wr = [pc |-> "idle", block_offset_ |-> 0, pos |-> 0, segs |-> <<>>,
             all_ok |-> TRUE, calls |-> 0, len |-> 0, left |-> 0,
             begin |-> FALSE, emitted |-> <<>>, start_pos |-> 0,
             start_offset |-> 0, start_seg |-> 0, s_ok |-> TRUE,
             env_ok |-> TRUE,
             after_failure |-> FALSE]
    /\ SkipListUnused /\ MemTableUnused /\ DbUnused /\ BoundaryUnused
    /\ FindFileUnused /\ VersionEditUnused /\ CompareUnused /\ VersionSetUnused /\ UtilUnused

\* add_record, lines 40-42: a call with a record of len bytes begins
LgAddRecord ==
    /\ wr.pc = "idle" /\ wr.calls < MaxRecords
    /\ \E len \in RecordLengths :
         wr' = [wr EXCEPT !.pc = "loop", !.len = len, !.left = len,
                          !.begin = TRUE, !.emitted = <<>>, !.s_ok = TRUE,
                          !.env_ok = TRUE, !.after_failure = FALSE,
                          !.start_pos = wr.pos, !.start_seg = Len(wr.segs),
                          !.start_offset = wr.block_offset_]
    /\ UNCHANGED <<slVars, memVars, dbVars, bndVars, ffVars, veVars, ikVars, vsVars, utVars>>

\* the destination after an append of n bytes of the given kind at pos: the
\* whole data when ok, and none of it or all but its last byte when not.
\* A payload is the bytes of the record from offset `from` on; a header
\* carries in `field` its bytes 4 and 5, the length of the fragment.
Appended(d, kind, n, type, ok, k, from, field) ==
    [pos  |-> d.pos + (IF ok THEN n ELSE k),
     segs |-> Append(d.segs, [kind |-> IF ok THEN kind ELSE "partial",
                              at |-> d.pos, len |-> IF ok THEN n ELSE k,
                              type |-> type, from |-> from, field |-> field])]

\* a header that keeps only the low byte of the length
LengthField_LowByte(length) == <<length % 256, 0>>

\* emit_physical_record, lines 87-88: buf[4] = length as u8 and
\* buf[5] = (length >> 8) as u8
LengthField(length) == <<length % 256, (length \div 256) % 256>>

\* the lengths a failed append of n bytes may leave
PartialLengths(n) == {0} \cup (IF n > 0 THEN {n - 1} ELSE {})

\* add_record, lines 44-76, with emit_physical_record, lines 81-111: one
\* turn of the loop.  The trailer is appended (its status is dropped), then
\* the header, then the payload when the header went in, then the
\* destination is flushed when the payload went in (the status of flush is
\* dropped); block_offset_ moves on whatever the appends returned.  env_ok
\* tells whether every Env call of the add_record call has returned OK so
\* far, after_failure whether a header was appended after one that did not.
LgFragment ==
    /\ wr.pc = "loop"
    /\ LET trailer == TrailerLength(wr.block_offset_)
           offset  == SwitchBlock(wr.block_offset_)
           f       == FragmentOf(offset, wr.left, wr.begin)
       IN  \E tok, hok, pok, fok \in BOOLEAN :
           \E tk \in PartialLengths(trailer), hk \in PartialLengths(HEADER_SIZE),
              pk \in PartialLengths(f.length) :
             /\ (trailer = 0 \/ tok) => tk = 0
             /\ trailer = 0 => tok
             /\ hok => hk = 0
             /\ ~hok => (pok /\ pk = 0)
             /\ pok => pk = 0
             /\ ~(hok /\ pok) => fok
             /\ LET d0 == [pos |-> wr.pos, segs |-> wr.segs]
                    d1 == IF trailer > 0
                          THEN Appended(d0, "zeros", trailer, ZeroType, tok, tk,
                                        0, <<>>)
                          ELSE d0
                    d2 == Appended(d1, "header", HEADER_SIZE, f.type, hok, hk,
                                   0, LengthField(f.length))
                    d3 == IF hok
                          THEN Appended(d2, "payload", f.length, f.type, pok, pk,
                                        wr.len - wr.left, <<>>)
                          ELSE d2
                    left == IF hok THEN wr.left - f.length ELSE wr.left
                    s_ok == hok /\ pok
                    done == ~s_ok \/ left = 0
                IN  wr' = [wr EXCEPT
                             !.pos = d3.pos, !.segs = d3.segs,
                             !.block_offset_ = offset + HEADER_SIZE + f.length,
                             !.left = left, !.begin = FALSE,
                             !.emitted = IF hok THEN Append(@, f.type) ELSE @,
                             !.s_ok = s_ok,
                             !.all_ok = @ /\ tok /\ hok /\ pok,
                             !.env_ok = @ /\ tok /\ hok /\ pok /\ fok,
                             !.after_failure = @ \/ (hok /\ ~(wr.env_ok /\ tok)),
                             !.pc = IF done THEN "idle" ELSE "loop",
                             !.calls = IF done THEN @ + 1 ELSE @]
    /\ UNCHANGED <<slVars, memVars, dbVars, bndVars, ffVars, veVars, ikVars, vsVars, utVars>>

LgNext == LgAddRecord \/ LgFragment

SpecLog == LgInit /\ [][LgNext]_vars

\* the types are one Full, or one First, any number of Middle, and one Last
IsRecordPattern(types) ==
    \/ types = <<FullType>>
    \/ /\ Len(types) >= 2
       /\ types[1] = FirstType
       /\ types[Len(types)] = LastType
       /\ \A i \in 2..Len(types) - 1 : types[i] = MiddleType

\* the payload space of the block where a record whose first fragment is
\* written from file position pos begins: what the block at pos has left
\* after a header, or a whole block less a header when it has no room for one
PayloadSpaceAt(pos) ==
    LET remaining == BLOCK_SIZE - (pos % BLOCK_SIZE) IN
    (IF remaining < HEADER_SIZE THEN BLOCK_SIZE ELSE remaining) - HEADER_SIZE

\* an add_record call has returned
CallReturned == wr.pc = "idle" /\ wr.calls > 0

\* what C18 says of a returned call, the payload space being space
FullOrSplit(space) ==
    /\ IsRecordPattern(wr.emitted)
    /\ \A i \in 1..Len(wr.emitted) : wr.emitted[i] # ZeroType
    /\ wr.emitted = <<FullType>> <=> wr.len <= space

IsRecordAt(i) ==
    /\ wr.segs[i].kind = "header"
    /\ i < Len(wr.segs) /\ wr.segs[i + 1].kind = "payload"

\* the segments lie one after the other from position 0 up to pos
SegmentsTile ==
    /\ \A i \in 1..Len(wr.segs) :
         wr.segs[i].at = (IF i = 1 THEN 0
                          ELSE wr.segs[i - 1].at + wr.segs[i - 1].len)
    /\ wr.pos = (IF wr.segs = <<>> THEN 0
                 ELSE wr.segs[Len(wr.segs)].at + wr.segs[Len(wr.segs)].len)

\* C19: on an initially empty destination whose appends succeed, every
\* physical record lies inside one block; when fewer than 7 bytes remain in a
\* block exactly those bytes are written as zeros and the next record starts
\* at block offset 0; block_offset_ stays in 0..BLOCK_SIZE and equals the
\* file position within the current block.
C19_RecordsWithinBlocks ==
    wr # <<>> /\ wr.all_ok =>
        /\ wr.block_offset_ \in 0..BLOCK_SIZE
        /\ wr.block_offset_ % BLOCK_SIZE = wr.pos % BLOCK_SIZE
        /\ wr.block_offset_ = BLOCK_SIZE => wr.pos > 0
        /\ SegmentsTile
        /\ \A i \in 1..Len(wr.segs) :
             LET seg == wr.segs[i] IN
             CASE seg.kind = "header" ->
                    /\ IsRecordAt(i)
                    /\ (seg.at % BLOCK_SIZE) + HEADER_SIZE + wr.segs[i + 1].len
                         <= BLOCK_SIZE
                    /\ (i > 1 /\ wr.segs[i - 1].kind = "zeros")
                         => seg.at % BLOCK_SIZE = 0
               [] seg.kind = "payload" -> i > 1 /\ wr.segs[i - 1].kind = "header"
               [] seg.kind = "zeros" ->
                    /\ seg.len \in 1..HEADER_SIZE - 1
                    /\ BLOCK_SIZE - (seg.at % BLOCK_SIZE) = seg.len
                    /\ i < Len(wr.segs) /\ wr.segs[i + 1].kind = "header"
               [] OTHER -> FALSE

\* every append has succeeded, a trailer of zeros was written and a record
\* follows it, and block_offset_ stands at the end of a filled block
C19_Witness ==
    /\ wr # <<>> /\ wr.all_ok /\ wr.pc = "idle"
    /\ \E i \in 1..Len(wr.segs) : wr.segs[i].kind = "zeros"
    /\ wr.block_offset_ = BLOCK_SIZE

\* the physical records of the add_record call under way or returned last:
\* the indices of their header segments, in order
RECURSIVE RecordsFrom(_)
RecordsFrom(i) ==
    IF i > Len(wr.segs) THEN <<>>
    ELSE (IF IsRecordAt(i) THEN <<i>> ELSE <<>>) \o RecordsFrom(i + 1)

\* the payloads of the records, in order, are the record cut into pieces:
\* the first begins at offset 0, each begins where the one before ended and
\* the last ends at the end of the record
PayloadsJoin(recs) ==
    /\ wr.segs[recs[1] + 1].from = 0
    /\ \A k \in 1..(Len(recs) - 1) :
         wr.segs[recs[k + 1] + 1].from
             = wr.segs[recs[k] + 1].from + wr.segs[recs[k] + 1].len
    /\ wr.segs[recs[Len(recs)] + 1].from + wr.segs[recs[Len(recs)] + 1].len = wr.len

\* what C34 says of the records of a call that returned OK
RecordsCarryPayload(recs) ==
    /\ Len(recs) >= 1
    /\ wr.len = 0 => (Len(recs) = 1 /\ wr.segs[recs[1] + 1].len = 0)
    /\ PayloadsJoin(recs)
    /\ \A k \in 1..Len(recs) :
         /\ wr.segs[recs[k] + 1].len <= 65535
         /\ wr.segs[recs[k]].field = LengthField(wr.segs[recs[k] + 1].len)
         /\ wr.segs[recs[k]].field[1] + 256 * wr.segs[recs[k]].field[2]
                = wr.segs[recs[k] + 1].len

C30_EnvFailuresSurface ==
    wr # <<>> =>
        /\ (CallReturned /\ ~wr.env_ok) => ~wr.s_ok
        /\ ~wr.after_failure

(***************************************************************************)
(* db/skiplist.rs: the locks of the list.  max_height_ and every node's    *)
(* next_ are std::sync::RwLock values: get_max_height and Node::next take   *)
(* the read lock for the length of the load, the store of max_height_ and  *)
(* Node::set_next take the write lock for the length of the store.  A pc    *)
(* ending in "_locked" stands between the acquisition and the access that   *)
(* ends with the release of the guard.  RwLock::read waits while the write *)
(* lock is held, RwLock::write while any lock is held.                     *)
(***************************************************************************)
NoLock == [kind |-> "none", node |-> None]
MaxHeightLock == [kind |-> "max_height_", node |-> None]
NextLock(node) == [kind |-> "next_", node |-> node]

\* the write lock the writer holds
WriterHolds ==
    CASE writer.pc = "height_locked"  -> MaxHeightLock
      [] writer.pc = "init_locked"    -> NextLock(writer.x)
      [] writer.pc = "publish_locked" -> NextLock(writer.prev[writer.i + 1])
      [] OTHER -> NoLock

\* the read lock the reader holds
ReaderHolds ==
    CASE reader.pc = "maxh_locked" -> MaxHeightLock
      [] reader.pc = "desc_locked" -> NextLock(reader.x)
      [] reader.pc = "next_locked" -> NextLock(reader.node)
      [] OTHER -> NoLock

\* insert, lines 62-63: random_height, and get_max_height for the comparison
LkWRandomHeight ==
    /\ writer.pc = "height"
    /\ \E h \in ConcHeights :
         writer' = [writer EXCEPT
                      !.height = h,
                      !.pc = IF h > GetMaxHeight(list) THEN "raise" ELSE "node"]
    /\ UNCHANGED <<list, inserted, last_op, reader, memVars, dbVars, bndVars, ffVars, veVars, lgVars, ikVars, vsVars, utVars>>

\* insert, lines 64-75: the head as predecessor of the new levels, and
\* max_height_.write(), which waits for the reader's guard to be dropped
LkWRaiseAcquire ==
    /\ writer.pc = "raise"
    /\ ReaderHolds # MaxHeightLock
    /\ writer' = [writer EXCEPT !.pc = "height_locked",
                                !.prev = RaisePrev(list, writer.prev, writer.height)]
    /\ UNCHANGED <<list, inserted, last_op, reader, memVars, dbVars, bndVars, ffVars, veVars, lgVars, ikVars, vsVars, utVars>>

\* insert, line 75: the store of max_height_, and the guard is dropped
LkWRaiseStore ==
    /\ writer.pc = "height_locked"
    /\ list' = RaiseMaxHeight(list, writer.height)
    /\ writer' = [writer EXCEPT !.pc = "node"]
    /\ UNCHANGED <<inserted, last_op, reader, memVars, dbVars, bndVars, ffVars, veVars, lgVars, ikVars, vsVars, utVars>>

\* insert, line 78: new_node (no pointer leads to it yet)
LkWNewNode ==
    /\ writer.pc = "node"
    /\ list' = [list EXCEPT !.nodes = Append(@, NewNode(writer.key, writer.height))]
    /\ writer' = [writer EXCEPT !.pc = "init", !.x = Len(list.nodes) + 1, !.i = 0]
    /\ UNCHANGED <<inserted, last_op, reader, memVars, dbVars, bndVars, ffVars, veVars, lgVars, ikVars, vsVars, utVars>>

\* insert, line 80: x.set_next takes x.next_.write()
LkWInitAcquire ==
    /\ writer.pc = "init"
    /\ ReaderHolds # NextLock(writer.x)
    /\ writer' = [writer EXCEPT !.pc = "init_locked"]
    /\ UNCHANGED <<list, inserted, last_op, reader, memVars, dbVars, bndVars, ffVars, veVars, lgVars, ikVars, vsVars, utVars>>

\* insert, line 80: the store of x.next_[i], and the guard is dropped
LkWInitStore ==
    /\ writer.pc = "init_locked"
    /\ list' = SpliceInit(list, writer.x, writer.i, writer.prev[writer.i + 1])
    /\ writer' = [writer EXCEPT !.pc = "publish"]
    /\ UNCHANGED <<inserted, last_op, reader, memVars, dbVars, bndVars, ffVars, veVars, lgVars, ikVars, vsVars, utVars>>

\* insert, line 81: p.set_next takes p.next_.write()
LkWPublishAcquire ==
    /\ writer.pc = "publish"
    /\ ReaderHolds # NextLock(writer.prev[writer.i + 1])
    /\ writer' = [writer EXCEPT !.pc = "publish_locked"]
    /\ UNCHANGED <<list, inserted, last_op, reader, memVars, dbVars, bndVars, ffVars, veVars, lgVars, ikVars, vsVars, utVars>>

\* insert, line 81: the store of p.next_[i], and the guard is dropped
LkWPublishStore ==
    /\ writer.pc = "publish_locked"
    /\ list' = SplicePublish(list, writer.x, writer.i, writer.prev[writer.i + 1])
    /\ IF writer.i + 1 < writer.height
       THEN /\ writer' = [writer EXCEPT !.pc = "init", !.i = writer.i + 1]
            /\ UNCHANGED inserted
       ELSE /\ writer' = IdleWriter
            /\ inserted' = inserted \cup {writer.key}
    /\ UNCHANGED <<last_op, reader, memVars, dbVars, bndVars, ffVars, veVars, lgVars, ikVars, vsVars, utVars>>

\* get_max_height, line 135: max_height_.read(), which waits while the
\* writer holds the write lock
LkRMaxHeightAcquire ==
    /\ reader.pc = "maxh"
    /\ WriterHolds # MaxHeightLock
    /\ reader' = [reader EXCEPT !.pc = "maxh_locked"]
    /\ UNCHANGED <<list, inserted, last_op, writer, memVars, dbVars, bndVars, ffVars, veVars, lgVars, ikVars, vsVars, utVars>>

\* get_max_height, line 135: the load, and the guard is dropped
LkRMaxHeightLoad ==
    /\ reader.pc = "maxh_locked"
    /\ reader' = [reader EXCEPT !.pc = "desc", !.x = head_,
                                 !.level = GetMaxHeight(list) - 1]
    /\ UNCHANGED <<list, inserted, last_op, writer, memVars, dbVars, bndVars, ffVars, veVars, lgVars, ikVars, vsVars, utVars>>

\* Node::next, line 282, in find_greater_or_equal: x.next_.read()
LkRDescendAcquire ==
    /\ reader.pc = "desc"
    /\ WriterHolds # NextLock(reader.x)
    /\ reader' = [reader EXCEPT !.pc = "desc_locked"]
    /\ UNCHANGED <<list, inserted, last_op, writer, memVars, dbVars, bndVars, ffVars, veVars, lgVars, ikVars, vsVars, utVars>>

\* find_greater_or_equal, lines 118-130: the load, the guard is dropped, and
\* the rest of the iteration of the loop
LkRDescendLoad ==
    /\ reader.pc = "desc_locked"
    /\ LET next == NodeNext(list, reader.x, reader.level) IN
       IF KeyIsAfterNode("key", list, reader.target, next)
       THEN reader' = [reader EXCEPT !.pc = "desc", !.x = next]
       ELSE IF reader.level = 0
            THEN reader' = [reader EXCEPT !.pc = "at", !.node = next, !.x = head_]
            ELSE reader' = [reader EXCEPT !.pc = "desc", !.level = reader.level - 1]
    /\ UNCHANGED <<list, inserted, last_op, writer, memVars, dbVars, bndVars, ffVars, veVars, lgVars, ikVars, vsVars, utVars>>

\* Iter::next: Node::next(0) takes node.next_.read()
LkRNextAcquire ==
    /\ reader.pc = "at"
    /\ reader.node # None
    /\ WriterHolds # NextLock(reader.node)
    /\ reader' = [reader EXCEPT !.pc = "next_locked"]
    /\ UNCHANGED <<list, inserted, last_op, writer, memVars, dbVars, bndVars, ffVars, veVars, lgVars, ikVars, vsVars, utVars>>

\* Iter::next: the load of the level-0 pointer, and the guard is dropped
LkRNextLoad ==
    /\ reader.pc = "next_locked"
    /\ reader' = [reader EXCEPT
                    !.pc = "at",
                    !.node = NodeNext(list, reader.node, 0),
                    !.target = NodeKey(list, reader.node) + 1,
                    !.must = FirstInserted(inserted, NodeKey(list, reader.node) + 1)]
    /\ UNCHANGED <<list, inserted, last_op, writer, memVars, dbVars, bndVars, ffVars, veVars, lgVars, ikVars, vsVars, utVars>>

LkNext ==
    \/ WBegin \/ WDescend \/ LkWRandomHeight \/ LkWRaiseAcquire \/ LkWRaiseStore
    \/ LkWNewNode \/ LkWInitAcquire \/ LkWInitStore
    \/ LkWPublishAcquire \/ LkWPublishStore
    \/ RBegin \/ LkRMaxHeightAcquire \/ LkRMaxHeightLoad
    \/ LkRDescendAcquire \/ LkRDescendLoad
    \/ LkRNextAcquire \/ LkRNextLoad \/ RSeek \/ REnd

SpecLocks == CcInit /\ [][LkNext]_vars

\* the reader is at a load whose read lock the writer's write lock keeps it
\* from taking: its step waits until the writer has dropped the guard
ReaderWaits ==
    \/ reader.pc = "maxh" /\ WriterHolds = MaxHeightLock
    \/ reader.pc = "desc" /\ WriterHolds = NextLock(reader.x)

\* C20: skip-list read operations take no lock: no step of a reader acquires
\* a lock or can be made to wait by the writer or by another reader.
C20_ReadersTakeNoLock == ReaderHolds = NoLock /\ ~ReaderWaits

(***************************************************************************)
(* The raise of max_height_ (insert, line 75) ahead of the links from the  *)
(* head, in the states of the writer and the reader of ConcurrentTest.     *)
(***************************************************************************)
\* the node the writer has made and is splicing in, or None
NodeInFlight == IF writer.pc \in {"init", "publish"} THEN writer.x ELSE None

\* max_height_ before the insert under way raised it: the height of the
\* tallest node of the inserts that have returned, or 1
OldMaxHeight ==
    LET H == {Len(list.nodes[n].next) :
                n \in {m \in 1..Len(list.nodes) : m # NodeInFlight}}
    IN  IF H = {} THEN 1 ELSE CHOOSE h \in H : \A g \in H : g <= h

\* max_height_ is raised and no pointer of the head at a new level is stored
RaisedUnlinked ==
    /\ GetMaxHeight(list) > OldMaxHeight
    /\ \A lv \in OldMaxHeight..GetMaxHeight(list) - 1 :
         NodeNext(list, head_, lv) = None

\* the first node at or after x's successor on level 0 whose key is >= target
RECURSIVE FirstOnLevel0(_, _, _)
FirstOnLevel0(l, x, target) ==
    LET next == NodeNext(l, x, 0) IN
    IF next = None \/ NodeKey(l, next) >= target THEN next
    ELSE FirstOnLevel0(l, next, target)

\* C21: a descent that starts from the raised max_height_ while the head's
\* pointers at the new levels are still None stays on the head at those
\* levels, dropping a level each time, and returns what a descent from the old
\* max_height_ returns: the first linked node with key >= target.
C21_RaisedHeightDropsThrough ==
    RaisedUnlinked =>
        /\ \A target \in 0..EndKey :
             LET new == FindGreaterOrEqualFrom("key", list, target, head_,
                                               GetMaxHeight(list) - 1, EmptyPrev)
                 old == FindGreaterOrEqualFrom("key", list, target, head_,
                                               OldMaxHeight - 1, EmptyPrev)
             IN  /\ new.node = old.node
                 /\ new.node = FirstOnLevel0(list, head_, target)
                 /\ \A lv \in OldMaxHeight..GetMaxHeight(list) - 1 :
                      new.prev[lv + 1] = head_
        /\ (reader.pc = "desc" /\ reader.level >= OldMaxHeight)
              => reader.x = head_

\* the reader has loaded the raised max_height_ and stands on the head at a
\* new level whose pointer is not stored yet, in a list that holds a key and
\* the level-0 link of the node being inserted
C21_Witness ==
    /\ RaisedUnlinked
    /\ reader.pc = "desc" /\ reader.level >= OldMaxHeight
    /\ inserted # {}
    /\ writer.pc = "init" /\ writer.i = 1

\* the nodes reachable from x by level-0 pointers, x left out
RECURSIVE Level0From(_, _)
Level0From(l, x) ==
    LET next == NodeNext(l, x, 0) IN
    IF next = None THEN {} ELSE {next} \cup Level0From(l, next)

\* the nodes linked into the list: those reachable from the head at level 0
Linked(l) == Level0From(l, head_)

\* C22: once a node is reachable from the head at level 0 it stays reachable
\* at level 0 in every later state, with the same key and the same number of
\* forward pointers: no step unlinks a node or changes a linked node's key or
\* height.
C22_LinkedNodesStay ==
    [][\A n \in Linked(list) :
          /\ n \in Linked(list')
          /\ list'.nodes[n].key = list.nodes[n].key
          /\ Len(list'.nodes[n].next) = Len(list.nodes[n].next)]_vars

\* two nodes are linked and a third, linked at level 0 between the head and
\* the last node, is being spliced in at level 1: pointers of linked nodes
\* have changed while every node stayed
C22_Witness ==
    /\ Cardinality(inserted) >= 2
    /\ writer.pc = "init" /\ writer.i = 1
    /\ writer.x \in Linked(list)
    /\ NodeNext(list, writer.x, 0) # None

\* the nodes met from x by level-i pointers, in order, x left out; the walk
\* ends at None, at a node that has no level i, or after fuel nodes
RECURSIVE ChainFrom(_, _, _, _)
ChainFrom(l, x, i, fuel) ==
    IF fuel = 0 \/ (x # head_ /\ Len(l.nodes[x].next) <= i) THEN <<>>
    ELSE LET next == NodeNext(l, x, i) IN
         IF next = None THEN <<>> ELSE <<next>> \o ChainFrom(l, next, i, fuel - 1)

\* the chain of level i from the head, cut after one node more than exist
LevelChain(l, i) == ChainFrom(l, head_, i, Len(l.nodes) + 1)

\* C33: in every state, the states in the middle of an insert included, the
\* chain followed from the head through the level-i pointers is, for each
\* level i, strictly ascending by key, ends in None and holds only nodes that
\* have a level i and are on the level-0 chain; the node being inserted is on
\* the chain of level i only when the splice has gone past level i, that is
\* after its own level-i pointer was set.
C33_LevelChainsSorted ==
    \A linked \in {Linked(list)} :
    \A i \in 0..(MAX_HEIGHT - 1) :
    \A c \in {LevelChain(list, i)} :
        /\ Len(c) <= Len(list.nodes)
        /\ \A k \in 1..Len(c) :
             /\ Len(list.nodes[c[k]].next) > i
             /\ c[k] \in linked
             /\ k < Len(c) => NodeKey(list, c[k]) < NodeKey(list, c[k + 1])
             /\ c[k] = NodeInFlight => i < writer.i

\* three nodes are linked, the one inserted last stands between the other two
\* on levels 0 and 1 and is being spliced in: its level-1 pointer is set and
\* the node is not yet on the chain of level 1
C33_Witness ==
    /\ Len(LevelChain(list, 0)) = 3
    /\ Len(LevelChain(list, 1)) = 2
    /\ writer.pc = "publish" /\ writer.i = 1
    /\ LevelChain(list, 0)[2] = writer.x
    /\ NodeNext(list, writer.x, 1) # None
    /\ writer.prev[2] # head_

(***************************************************************************)
(* db/skiplist.rs: Iter on the sequential list (tests::empty_test and      *)
(* insert_and_lookup_test).  The iterator is the record `reader`: node is  *)
(* node_, op the last call made on it, seen the keys a walk has stood on   *)
(* since its seek_to_first or seek_to_last (walk is "none" once the list   *)
(* was written to during the walk).                                        *)
(***************************************************************************)
\* a find_last that does not go down from the top level
RECURSIVE FindLastFrom_TopLevelOnly(_, _, _)
FindLastFrom_TopLevelOnly(l, x, level) ==
    LET next == NodeNext(l, x, level) IN
    IF next # None THEN FindLastFrom_TopLevelOnly(l, next, level) ELSE x

\* find_last, lines 162-174: the loop from node x at `level`
RECURSIVE FindLastFrom(_, _, _)
FindLastFrom(l, x, level) ==
    LET next == NodeNext(l, x, level) IN
    IF next # None THEN FindLastFrom(l, next, level)
    ELSE IF level = 0 THEN x
    ELSE FindLastFrom(l, x, level - 1)

\* find_last: the last node, or head_ when the list is empty
FindLast(l) == FindLastFrom(l, head_, GetMaxHeight(l) - 1)

\* a find_less_than that also passes a node whose key equals the key
RECURSIVE FindLessThanFrom_OrEqual(_, _, _, _)
FindLessThanFrom_OrEqual(l, key, x, level) ==
    LET next == NodeNext(l, x, level) IN
    IF next # None /\ NodeKey(l, next) <= key
    THEN FindLessThanFrom_OrEqual(l, key, next, level)
    ELSE IF level = 0 THEN x
    ELSE FindLessThanFrom_OrEqual(l, key, x, level - 1)

\* find_less_than, lines 181-194: the loop from node x at `level`
RECURSIVE FindLessThanFrom(_, _, _, _)
FindLessThanFrom(l, key, x, level) ==
    LET next == NodeNext(l, x, level) IN
    IF next # None /\ NodeKey(l, next) < key
    THEN FindLessThanFrom(l, key, next, level)
    ELSE IF level = 0 THEN x
    ELSE FindLessThanFrom(l, key, x, level - 1)

\* find_less_than: the last node with a key < key, or head_
FindLessThan(l, key) == FindLessThanFrom(l, key, head_, GetMaxHeight(l) - 1)

\* seek_to_last and prev, lines 225-231 and 258-264: head_ means not valid
NodeOrNone(x) == IF x = head_ THEN None ELSE x

\* the iterator after a call that positions it at node
IterAt(op, target, node, walk, seen) ==
    [pc |-> "iter", op |-> op, target |-> target, node |-> node,
     walk |-> walk,
     seen |-> IF node = None THEN seen ELSE Append(seen, NodeKey(list, node))]

\* the heights random_height returns for the lists the iterator walks
IterHeights == 1..MaxIterHeight

ItInit == SlInit

\* list.insert(&key); a walk under way is no longer on a quiescent list
ItInsert ==
    /\ \E key \in Keys \ inserted, h \in IterHeights :
         /\ list' = InsertKey("key", list, key, h)
         /\ inserted' = inserted \cup {key}
    /\ reader' = IF reader.pc = "iter"
                 THEN [reader EXCEPT !.walk = "none", !.seen = <<>>, !.op = "stale"]
                 ELSE reader
    /\ UNCHANGED <<last_op, writer, memVars, dbVars, bndVars, ffVars, veVars, lgVars, ikVars, vsVars, utVars>>

\* Iter::new: node_ is None
ItNew ==
    /\ reader' = [pc |-> "iter", op |-> "new", target |-> 0, node |-> None,
                  walk |-> "none", seen |-> <<>>]
    /\ UNCHANGED <<list, inserted, last_op, writer, memVars, dbVars, bndVars, ffVars, veVars, lgVars, ikVars, vsVars, utVars>>

\* Iter::seek(target)
ItSeek ==
    /\ reader.pc = "iter"
    /\ \E target \in 0..(MaxKey + 1) :
         reader' = IterAt("seek", target,
                          FindGreaterOrEqual("key", list, target).node,
                          "none", <<>>)
    /\ UNCHANGED <<list, inserted, last_op, writer, memVars, dbVars, bndVars, ffVars, veVars, lgVars, ikVars, vsVars, utVars>>

\* Iter::seek_to_first
ItSeekToFirst ==
    /\ reader.pc = "iter"
    /\ reader' = IterAt("seek_to_first", 0, NodeNext(list, head_, 0),
                        "forward", <<>>)
    /\ UNCHANGED <<list, inserted, last_op, writer, memVars, dbVars, bndVars, ffVars, veVars, lgVars, ikVars, vsVars, utVars>>

\* Iter::seek_to_last
ItSeekToLast ==
    /\ reader.pc = "iter"
    /\ reader' = IterAt("seek_to_last", 0, NodeOrNone(FindLast(list)),
                        "backward", <<>>)
    /\ UNCHANGED <<list, inserted, last_op, writer, memVars, dbVars, bndVars, ffVars, veVars, lgVars, ikVars, vsVars, utVars>>

\* Iter::next; REQUIRES: Valid()
ItNext ==
    /\ reader.pc = "iter" /\ reader.node # None
    /\ reader' = IterAt("next", NodeKey(list, reader.node),
                        NodeNext(list, reader.node, 0),
                        IF reader.walk = "forward" THEN "forward" ELSE "none",
                        IF reader.walk = "forward" THEN reader.seen ELSE <<>>)
    /\ UNCHANGED <<list, inserted, last_op, writer, memVars, dbVars, bndVars, ffVars, veVars, lgVars, ikVars, vsVars, utVars>>

\* Iter::prev; REQUIRES: Valid()
ItPrev ==
    /\ reader.pc = "iter" /\ reader.node # None
    /\ reader' = IterAt("prev", NodeKey(list, reader.node),
                        NodeOrNone(FindLessThan(list, NodeKey(list, reader.node))),
                        IF reader.walk = "backward" THEN "backward" ELSE "none",
                        IF reader.walk = "backward" THEN reader.seen ELSE <<>>)
    /\ UNCHANGED <<list, inserted, last_op, writer, memVars, dbVars, bndVars, ffVars, veVars, lgVars, ikVars, vsVars, utVars>>

IterNext == ItInsert \/ ItNew \/ ItSeek \/ ItSeekToFirst \/ ItSeekToLast \/ ItNext \/ ItPrev

SpecIter == ItInit /\ [][IterNext]_vars

\* the iterator is valid exactly when S is not empty, and then at key k
ValidAt(S, k) ==
    IF S = {} THEN reader.node = None
    ELSE reader.node # None /\ NodeKey(list, reader.node) = k

\* the least and the greatest element of a non-empty set of keys
Least(S) == CHOOSE k \in S : \A j \in S : k <= j
Greatest(S) == CHOOSE k \in S : \A j \in S : j <= k

\* C23: after seek(target) the iterator is valid iff the list holds a key
\* >= target, and then at the least such key; after seek_to_first and
\* seek_to_last it is valid iff the list is not empty, at the least and the
\* greatest key; a newly created iterator is not valid.
C23_SeekPositions ==
    reader.pc = "iter" =>
        /\ reader.op = "new" => reader.node = None
        /\ reader.op = "seek" =>
             LET S == {k \in inserted : k >= reader.target} IN
             ValidAt(S, IF S = {} THEN 0 ELSE Least(S))
        /\ reader.op = "seek_to_first" =>
             ValidAt(inserted, IF inserted = {} THEN 0 ELSE Least(inserted))
        /\ reader.op = "seek_to_last" =>
             ValidAt(inserted, IF inserted = {} THEN 0 ELSE Greatest(inserted))

\* seek_to_last stands on the greatest key of a full list whose first node is
\* the tallest, so that the top level ends before the last node
C23_Witness ==
    /\ reader.pc = "iter" /\ reader.op = "seek_to_last"
    /\ inserted = Keys
    /\ reader.node # None /\ NodeKey(list, reader.node) = MaxKey
    /\ NodeNext(list, head_, GetMaxHeight(list) - 1) # reader.node
    /\ Len(list.nodes[reader.node].next) < GetMaxHeight(list)

\* the keys of S in ascending order
RECURSIVE Ascending(_)
Ascending(S) ==
    IF S = {} THEN <<>> ELSE <<Least(S)>> \o Ascending(S \ {Least(S)})

\* the keys of S in descending order
RECURSIVE Descending(_)
Descending(S) ==
    IF S = {} THEN <<>> ELSE <<Greatest(S)>> \o Descending(S \ {Greatest(S)})

\* seq is a prefix of full, and all of it when done
PrefixOf(seq, full, done) ==
    /\ Len(seq) <= Len(full)
    /\ seq = SubSeq(full, 1, Len(seq))
    /\ done => seq = full

\* C24: on a quiescent list, next() repeated from seek_to_first visits every
\* inserted key once in strictly ascending order and then the iterator is not
\* valid; prev() repeated from seek_to_last visits every inserted key once in
\* strictly descending order and then the iterator is not valid; prev() from
\* key k moves to the greatest key < k.
C24_WalksVisitAllInOrder ==
    reader.pc = "iter" =>
        /\ reader.walk = "forward" =>
             PrefixOf(reader.seen, Ascending(inserted), reader.node = None)
        /\ reader.walk = "backward" =>
             PrefixOf(reader.seen, Descending(inserted), reader.node = None)
        /\ reader.op = "prev" =>
             LET S == {k \in inserted : k < reader.target} IN
             ValidAt(S, IF S = {} THEN 0 ELSE Greatest(S))

\* a backward walk over a full list of nodes with different heights has stood
\* on every key and ended
C24_Witness ==
    /\ reader.pc = "iter" /\ reader.walk = "backward" /\ reader.op = "prev"
    /\ inserted = Keys
    /\ reader.node = None
    /\ Len(reader.seen) = MaxKey
    /\ \E a, b \in 1..Len(list.nodes) :
          Len(list.nodes[a].next) < Len(list.nodes[b].next)

(***************************************************************************)
(* db/dbformat.rs: InternalKeyComparator::compare on internal keys built   *)
(* by append_internal_key, the user comparator being the bytewise one.     *)
(***************************************************************************)
\* "a", "ab" and "b"
IkUserKeys == {<<97>>, <<97, 98>>, <<98>>}

\* sequence numbers in one byte of the tag and in two
IkSequences == {1, 5, 7, 256}

\* ParsedInternalKey
IkParsedKeys ==
    [user_key : IkUserKeys, sequence : IkSequences, type : {TypeDeletion, TypeValue}]

\* append_internal_key on a ParsedInternalKey
AppendInternalKey(k) == InternalKeyFrom(k.user_key, k.sequence, k.type)

\* three keys to compare
IkInit ==
    /\ \E a, b, c \in IkParsedKeys :
         ik = [pc |-> "keys", a |-> a, b |-> b, c |-> c, r |-> <<>>]
    /\ SkipListUnused /\ MemTableUnused /\ DbUnused /\ BoundaryUnused
    /\ FindFileUnused /\ VersionEditUnused /\ LogUnused /\ VersionSetUnused /\ UtilUnused

\* compare on the encoded keys, pair by pair
IkCompare ==
    /\ ik.pc = "keys"
    /\ LET a == AppendInternalKey(ik.a)
           b == AppendInternalKey(ik.b)
           c == AppendInternalKey(ik.c)
       IN  ik' = [ik EXCEPT !.pc = "compared",
                            !.r = [aa |-> InternalKeyCompare(a, a),
                                   ab |-> InternalKeyCompare(a, b),
                                   ba |-> InternalKeyCompare(b, a),
                                   bc |-> InternalKeyCompare(b, c),
                                   ac |-> InternalKeyCompare(a, c)]]
    /\ UNCHANGED <<slVars, memVars, dbVars, bndVars, ffVars, veVars, lgVars, vsVars, utVars>>

IkNext == IkCompare

SpecCompare == IkInit /\ [][IkNext]_vars

\* Ordering::reverse
Reverse(r) == IF r = "Less" THEN "Greater" ELSE IF r = "Greater" THEN "Less" ELSE r

\* the order the claim describes: user key ascending under the user
\* comparator, then sequence number descending, then value type descending
OrderByUserKeySequenceType(a, b) ==
    LET u == BytewiseCompare(a.user_key, b.user_key) IN
    IF u # "Equal" THEN u
    ELSE IF a.sequence > b.sequence THEN "Less"
    ELSE IF a.sequence < b.sequence THEN "Greater"
    ELSE IF a.type > b.type THEN "Less"
    ELSE IF a.type < b.type THEN "Greater"
    ELSE "Equal"

\* C25: InternalKeyComparator::compare is a total order on internal keys:
\* by user key ascending under the user comparator, then by sequence number
\* descending, then by value type descending; two keys compare Equal only
\* when user key, sequence and type are all equal.
C25_InternalKeyTotalOrder ==
    (ik # <<>> /\ ik.pc = "compared") =>
        /\ ik.r.ab = OrderByUserKeySequenceType(ik.a, ik.b)
        /\ ik.r.bc = OrderByUserKeySequenceType(ik.b, ik.c)
        /\ ik.r.aa = "Equal"
        /\ ik.r.ba = Reverse(ik.r.ab)
        /\ (ik.r.ab \in {"Less", "Equal"} /\ ik.r.bc \in {"Less", "Equal"})
              => /\ ik.r.ac \in {"Less", "Equal"}
                 /\ ik.r.ac = "Equal" => (ik.r.ab = "Equal" /\ ik.r.bc = "Equal")
        /\ ik.r.ab = "Equal" <=> ik.a = ik.b

\* (a, 7, Value) was found before (a, 5, Value), and that before (b, 1, Value)
C25_Witness ==
    /\ ik # <<>> /\ ik.pc = "compared"
    /\ ik.a = [user_key |-> <<97>>, sequence |-> 7, type |-> TypeValue]
    /\ ik.b = [user_key |-> <<97>>, sequence |-> 5, type |-> TypeValue]
    /\ ik.c = [user_key |-> <<98>>, sequence |-> 1, type |-> TypeValue]
    /\ ik.r.ab = "Less" /\ ik.r.bc = "Less" /\ ik.r.ac = "Less"

(***************************************************************************)
(* db/version_set.rs: VersionSet::new_file_number.  VersionSet::new is not *)
(* written yet (todo!()); the counter starts at 2, the next_file_number    *)
(* new_db records, or at what a recovered manifest carried.                *)
(***************************************************************************)
\* a new_file_number that hands out the counter without moving it
NewFileNumber_NoIncrement(v) ==
    [file_number |-> v.next_file_number_, vset |-> v]

\* new_file_number, lines 137-141; next_file_number_ is a u64 and the call
\* is not made at its last value
NewFileNumber(v) ==
    [file_number |-> v.next_file_number_,
     vset        |-> [v EXCEPT !.next_file_number_ = @ + 1]]

VsInit ==
    /\ \E n \in 2..MaxInitialFileNumber :
         vs = [next_file_number_ |-> n, returned |-> <<>>]
    /\ SkipListUnused /\ MemTableUnused /\ DbUnused /\ BoundaryUnused
    /\ FindFileUnused /\ VersionEditUnused /\ LogUnused /\ CompareUnused
    /\ UtilUnused

\* a call of new_file_number; the number it returned is noted
VsNewFileNumber ==
    /\ Len(vs.returned) < MaxAllocations
    /\ LET r == NewFileNumber([next_file_number_ |-> vs.next_file_number_]) IN
       vs' = [next_file_number_ |-> r.vset.next_file_number_,
              returned |-> Append(vs.returned, r.file_number)]
    /\ UNCHANGED <<slVars, memVars, dbVars, bndVars, ffVars, veVars, lgVars, ikVars, utVars>>

VsNext == VsNewFileNumber

SpecVersionSet == VsInit /\ [][VsNext]_vars

\* C29: over any sequence of new_file_number calls each call returns the
\* counter and adds one to it: the numbers returned are strictly increasing,
\* none is returned twice, and next_file_number_ is greater than every number
\* returned so far.
C29_FileNumbersIncrease ==
    vs # <<>> =>
        /\ \A i \in 1..Len(vs.returned) - 1 : vs.returned[i + 1] = vs.returned[i] + 1
        /\ \A i, j \in 1..Len(vs.returned) :
             i < j => vs.returned[i] < vs.returned[j]
        /\ \A i \in 1..Len(vs.returned) : vs.returned[i] < vs.next_file_number_
        /\ vs.returned # <<>> =>
             vs.next_file_number_ = vs.returned[Len(vs.returned)] + 1

\* three numbers were handed out from a counter that began at 2
C29_Witness ==
    /\ vs # <<>>
    /\ Len(vs.returned) >= 3
    /\ vs.returned[1] = 2

(***************************************************************************)
(* db.rs: DB::open from the return of recover to the end of the locked     *)
(* block.  recover has no path that returns OK yet (it ends in todo!()),   *)
(* so what it hands back is taken from its signature: a status, and mem_   *)
(* either left as DB::new made it or installed from a replayed log.        *)
(***************************************************************************)
\* an open that installs the memtable whether or not the log file was created
OpenNewLog_MemAlways(o, new_log_number, file_ok) ==
    IF file_ok
    THEN [o EXCEPT !.edit = [has_log_number_ |-> TRUE, log_number_ |-> new_log_number],
                   !.logfile_ = <<new_log_number>>,
                   !.logfile_number_ = new_log_number,
                   !.log_ = <<new_log_number>>,
                   !.mem_ = TRUE]
    ELSE [o EXCEPT !.s = IoError("new_writable_file"), !.mem_ = TRUE]

\* open, lines 55-64: the match on new_writable_file; logfile_ and log_ hold
\* the number the file was created for
OpenNewLog(o, new_log_number, file_ok) ==
    IF file_ok
    THEN [o EXCEPT !.edit = [has_log_number_ |-> TRUE, log_number_ |-> new_log_number],
                   !.logfile_ = <<new_log_number>>,
                   !.logfile_number_ = new_log_number,
                   !.log_ = <<new_log_number>>,
                   !.mem_ = TRUE]
    ELSE [o EXCEPT !.s = IoError("new_writable_file")]

\* the statuses recover returns
RecoverStatuses ==
    {OkStatus, IoError("lock_file"),
     InvalidArgument("does not exist (create_if_missing is false)")}

\* DB::new, lines 70-90, VersionEdit::new, and the return of recover
OpInit ==
    /\ \E n \in 2..MaxInitialFileNumber :
         vs = [next_file_number_ |-> n, returned |-> <<>>]
    /\ \E s \in RecoverStatuses, mem \in BOOLEAN :
         odb = [pc |-> "recovered", s |-> s, mem_ |-> mem, recovered |-> [s |-> s, mem_ |-> mem],
               edit |-> [has_log_number_ |-> FALSE, log_number_ |-> 0],
               logfile_ |-> <<>>, logfile_number_ |-> 0, log_ |-> <<>>,
               file_ok |-> <<>>]
    /\ SkipListUnused /\ MemTableUnused /\ DbUnused /\ BoundaryUnused
    /\ FindFileUnused /\ VersionEditUnused /\ LogUnused /\ CompareUnused
    /\ vi = <<>> /\ mk = <<>> /\ rng = <<>>

\* open, lines 52-65: the block that follows recover
OpNewLog ==
    /\ odb.pc = "recovered"
    /\ IF odb.s = OkStatus /\ ~odb.mem_
       THEN \E file_ok \in BOOLEAN :
              LET r == NewFileNumber([next_file_number_ |-> vs.next_file_number_]) IN
              /\ vs' = [next_file_number_ |-> r.vset.next_file_number_,
                        returned |-> Append(vs.returned, r.file_number)]
              /\ odb' = [OpenNewLog(odb, r.file_number, file_ok)
                          EXCEPT !.pc = "opened", !.file_ok = <<file_ok>>]
       ELSE /\ odb' = [odb EXCEPT !.pc = "opened"]
            /\ vs' = vs
    /\ UNCHANGED <<slVars, memVars, dbVars, bndVars, ffVars, veVars, lgVars, ikVars,
                   vi, mk, rng>>

OpNext == OpNewLog

SpecOpen == OpInit /\ [][OpNext]_vars

\* recover returned OK and left no memtable
RecoveredWithoutMem == odb.recovered.s = OkStatus /\ ~odb.recovered.mem_

\* C37: in DB::open, after recover succeeds with no memtable installed, the
\* log and memtable are installed all or nothing: either new_writable_file
\* succeeds and logfile_, log_ and mem_ are all set, with logfile_number_ the
\* freshly allocated file number that is also the edit's log_number, or it
\* fails, none of them is set, the edit's log_number is not set, and the
\* failure is the open status.
C37_LogAndMemAllOrNothing ==
    (odb.pc = "opened" /\ RecoveredWithoutMem) =>
        \/ /\ odb.file_ok = <<TRUE>>
           /\ odb.logfile_ # <<>> /\ odb.log_ # <<>> /\ odb.mem_
           /\ odb.logfile_number_ = vs.returned[1]
           /\ odb.logfile_number_ = vs.next_file_number_ - 1
           /\ odb.edit = [has_log_number_ |-> TRUE, log_number_ |-> odb.logfile_number_]
           /\ odb.logfile_ = <<odb.logfile_number_>> /\ odb.log_ = odb.logfile_
           /\ odb.s = OkStatus
        \/ /\ odb.file_ok = <<FALSE>>
           /\ odb.logfile_ = <<>> /\ odb.log_ = <<>> /\ ~odb.mem_
           /\ ~odb.edit.has_log_number_
           /\ odb.s = IoError("new_writable_file")

\* new_writable_file failed for the number allocated from a counter at 2
C37_Witness ==
    /\ odb.pc = "opened" /\ RecoveredWithoutMem
    /\ odb.file_ok = <<FALSE>>
    /\ vs.returned = <<2>>

\* the log and the memtable were installed for the allocated number 7
C37_WitnessInstalled ==
    /\ odb.pc = "opened" /\ RecoveredWithoutMem
    /\ odb.file_ok = <<TRUE>>
    /\ odb.logfile_number_ = 7

(***************************************************************************)
(* util/coding.rs: varints over the whole width of u32 and u64.  A         *)
(* number is the set of the positions of its one bits, so that every u64   *)
(* can be written down: 0 is {}, 2^k is {k}, 2^k - 1 is 0..(k - 1).        *)
(***************************************************************************)
\* the most values put back to back into one buffer
MaxVarints == 2
\* the longest run of continuation bytes of an input handed to the decoders
MaxContinuation == 11

\* the number whose one bits, counted from position b, are those of bs from
\* b upward, for bs within 0..30
RECURSIVE BitsToIntFrom(_, _)
BitsToIntFrom(bs, b) ==
    IF b > 30 THEN 0
    ELSE (IF b \in bs THEN 1 ELSE 0) + 2 * BitsToIntFrom(bs, b + 1)

\* the number whose one bits are bs, for bs within 0..30
BitsToInt(bs) == BitsToIntFrom(bs, 0)

\* the one bits of n moved up by b positions
RECURSIVE IntToBitsFrom(_, _)
IntToBitsFrom(n, b) ==
    IF n = 0 THEN {}
    ELSE (IF n % 2 = 1 THEN {b} ELSE {}) \cup IntToBitsFrom(n \div 2, b + 1)

\* the one bits of n, for n in 0..2^31 - 1
IntToBits(n) == IntToBitsFrom(n, 0)

\* `v >= B as u64`
GeB(v) == \E b \in v : b >= 7

\* `v >>= 7`
Shr7(v) == {b - 7 : b \in {x \in v : x >= 7}}

\* `(v | B as u64) as u8`
OrBWide(v) == 128 + BitsToInt({b \in v : b < 7})

\* encode_varint64 of any u64
RECURSIVE EncodeVarint64Wide(_)
EncodeVarint64Wide(v) ==
    IF GeB(v) THEN <<OrBWide(v)>> \o EncodeVarint64Wide(Shr7(v))
    ELSE <<BitsToInt(v)>>

\* varint_length of any u64
RECURSIVE VarintLengthWide(_)
VarintLengthWide(v) == IF GeB(v) THEN 1 + VarintLengthWide(Shr7(v)) ELSE 1

\* a shift that loses the bits from position 32 upward
Shl64_Narrow(byte, shift) == {b + shift : b \in IntToBits(byte)} \cap (0..31)

\* `byte << shift` in a u64: the bits shifted past position 63 are lost
Shl64(byte, shift) == {b + shift : b \in IntToBits(byte)} \cap (0..63)

\* a decoder that takes the end of the input for the end of the number
RECURSIVE GetVarint64IdxWideLoop_AcceptsEnd(_, _, _, _)
GetVarint64IdxWideLoop_AcceptsEnd(bytes, idx, shift, result) ==
    IF shift <= 63 /\ idx < Len(bytes)
    THEN LET byte == bytes[idx + 1] IN
         IF byte >= B
         THEN GetVarint64IdxWideLoop_AcceptsEnd(bytes, idx + 1, shift + 7,
                                                result \cup Shl64(byte % B, shift))
         ELSE [next |-> idx + 1, value |-> result \cup Shl64(byte, shift)]
    ELSE [next |-> idx, value |-> result]

\* get_varint64_idx for any u64: the loop, (-1, 0) when no final byte is
\* found within 10 bytes
RECURSIVE GetVarint64IdxWideLoop(_, _, _, _)
GetVarint64IdxWideLoop(bytes, idx, shift, result) ==
    IF shift <= 63 /\ idx < Len(bytes)
    THEN LET byte == bytes[idx + 1] IN
         IF byte >= B
         THEN GetVarint64IdxWideLoop(bytes, idx + 1, shift + 7,
                                     result \cup Shl64(byte % B, shift))
         ELSE [next |-> idx + 1, value |-> result \cup Shl64(byte, shift)]
    ELSE [next |-> -1, value |-> {}]

GetVarint64IdxWide(bytes, idx) == GetVarint64IdxWideLoop(bytes, idx, 0, {})

\* encode_varint32 of any u32
EncodeVarint32Wide(v) ==
    EncodeVarint32U(BitsToInt(v \ {31}), IF 31 \in v THEN 1 ELSE 0)

\* get_varint32_idx, its u32 as a set of bits
GetVarint32IdxWide(bytes, idx) ==
    Only({[next  |-> r.next,
           value |-> IntToBits(r.value) \cup (IF r.top = 1 THEN {31} ELSE {})] :
          r \in {GetVarint32Idx(bytes, idx)}})

\* the values of varint32_test and varint64_test for a width of w bits: 0,
\* 100, the powers of two, one less and one more than each, the greatest
\* value and the one before it, and the value of the truncation tests
VarintValues(w) ==
    {{k} : k \in 0..(w - 1)}
    \cup {0..(k - 1) : k \in 0..w}
    \cup {{0, k} : k \in 1..(w - 1)}
    \cup {1..(w - 1), IntToBits(100), IntToBits(100) \cup {w - 1}}

\* the values put after the first one
FollowValues(w) == {{}, IntToBits(300), {w - 3}, 0..(w - 1)}

\* the bytes an input is made of: continuation bytes and final bytes
ContinuationBytes == {129, 255}

FinalBytes == {0, 17, 127}

ViInit ==
    /\ vi \in {[mode |-> "values", width |-> w, values |-> <<>>, buf |-> <<>>,
                idx |-> 0, decoded |-> <<>>, pc |-> "put"] : w \in {32, 64}}
              \cup
              {[mode |-> "input", input |-> <<>>, closed |-> FALSE,
                r32 |-> GetVarint32Idx(<<>>, 0), r64 |-> GetVarint64IdxWide(<<>>, 0)]}
    /\ mk = <<>> /\ rng = <<>> /\ odb = <<>>
    /\ SkipListUnused /\ MemTableUnused /\ DbUnused /\ BoundaryUnused
    /\ FindFileUnused /\ VersionEditUnused /\ LogUnused /\ CompareUnused
    /\ VersionSetUnused

\* the values the next put may take
PutValues(w) == IF vi.values = <<>> THEN VarintValues(w) ELSE FollowValues(w)

\* put_varint32(dst, v)
ViPutVarint32 ==
    /\ vi # <<>> /\ vi.mode = "values" /\ vi.width = 32 /\ vi.pc = "put"
    /\ Len(vi.values) < MaxVarints
    /\ \E v \in PutValues(32) :
         vi' = [vi EXCEPT !.values = Append(@, v),
                          !.buf = @ \o EncodeVarint32Wide(v)]
    /\ UNCHANGED <<mk, rng, odb, slVars, memVars, dbVars, bndVars, ffVars, veVars, lgVars, ikVars, vsVars>>

\* put_varint64(dst, v)
ViPutVarint64 ==
    /\ vi # <<>> /\ vi.mode = "values" /\ vi.width = 64 /\ vi.pc = "put"
    /\ Len(vi.values) < MaxVarints
    /\ \E v \in PutValues(64) :
         vi' = [vi EXCEPT !.values = Append(@, v),
                          !.buf = @ \o EncodeVarint64Wide(v)]
    /\ UNCHANGED <<mk, rng, odb, slVars, memVars, dbVars, bndVars, ffVars, veVars, lgVars, ikVars, vsVars>>

\* what a decoding at vi.idx that returned r adds to the state
Decoded(r) ==
    [vi EXCEPT !.pc = "get", !.idx = r.next,
               !.decoded = Append(@, [next |-> r.next, value |-> r.value,
                                      consumed |-> r.next - vi.idx])]

\* get_varint32_idx(&s, idx), as the loop of varint32_test calls it
ViGetVarint32Idx ==
    /\ vi # <<>> /\ vi.mode = "values" /\ vi.width = 32
    /\ Len(vi.decoded) < Len(vi.values) /\ vi.idx # -1
    /\ vi' = Decoded(GetVarint32IdxWide(vi.buf, vi.idx))
    /\ UNCHANGED <<mk, rng, odb, slVars, memVars, dbVars, bndVars, ffVars, veVars, lgVars, ikVars, vsVars>>

\* get_varint64_idx(&s, idx), as the loop of varint64_test calls it
ViGetVarint64Idx ==
    /\ vi # <<>> /\ vi.mode = "values" /\ vi.width = 64
    /\ Len(vi.decoded) < Len(vi.values) /\ vi.idx # -1
    /\ vi' = Decoded(GetVarint64IdxWide(vi.buf, vi.idx))
    /\ UNCHANGED <<mk, rng, odb, slVars, memVars, dbVars, bndVars, ffVars, veVars, lgVars, ikVars, vsVars>>

\* an input grows by one byte and both decoders are called on it from index
\* 0: any run of continuation bytes, then a final byte, then one more byte
ViDecodeInput ==
    /\ vi # <<>> /\ vi.mode = "input" /\ ~vi.closed
    /\ \E byte \in ContinuationBytes \cup FinalBytes :
         LET final == \E i \in 1..Len(vi.input) : vi.input[i] < B
             input == Append(vi.input, byte)
         IN  /\ (~final /\ byte >= B) => Len(vi.input) < MaxContinuation
             /\ vi' = [vi EXCEPT !.input = input, !.closed = final,
                                 !.r32 = GetVarint32Idx(input, 0),
                                 !.r64 = GetVarint64IdxWide(input, 0)]
    /\ UNCHANGED <<mk, rng, odb, slVars, memVars, dbVars, bndVars, ffVars, veVars, lgVars, ikVars, vsVars>>

ViNext ==
    \/ ViPutVarint32 \/ ViPutVarint64 \/ ViGetVarint32Idx \/ ViGetVarint64Idx
    \/ ViDecodeInput

SpecVarint == ViInit /\ [][ViNext]_vars

\* C31: decoding the bytes of encode_varint32(v) or encode_varint64(v) returns
\* v and consumes exactly varint_length(v) bytes, 1 to 5 for 32 bits and 1 to
\* 10 for 64 bits; values encoded back to back decode in order to the same
\* values and the decoding of the last one ends at the end of the buffer.
C31_VarintRoundTrip ==
    (vi # <<>> /\ vi.mode = "values") =>
        /\ \A i \in 1..Len(vi.decoded) :
             /\ vi.decoded[i].next # -1
             /\ vi.decoded[i].value = vi.values[i]
             /\ vi.decoded[i].consumed = VarintLengthWide(vi.values[i])
             /\ vi.decoded[i].consumed \in 1..(IF vi.width = 32 THEN 5 ELSE 10)
        /\ (vi.decoded # <<>> /\ Len(vi.decoded) = Len(vi.values)) =>
               vi.idx = Len(vi.buf)

\* 2^64 - 1 and 300 were put back to back and decoded, the first from ten
\* bytes and the second from two
C31_Witness ==
    /\ vi # <<>> /\ vi.mode = "values" /\ vi.width = 64
    /\ vi.values = <<0..63, IntToBits(300)>>
    /\ Len(vi.decoded) = 2
    /\ vi.decoded[1].consumed = 10
    /\ vi.decoded[2].consumed = 2
    /\ vi.decoded[2].value = vi.values[2]

\* the 1-based position of the first byte of the input with the high bit
\* clear, 0 when there is none
FirstFinal(input) ==
    IF \E i \in 1..Len(input) : input[i] < B
    THEN CHOOSE i \in 1..Len(input) :
            input[i] < B /\ \A j \in 1..(i - 1) : input[j] >= B
    ELSE 0

\* a decoder's answer r on this input, whose encodings have at most `most` bytes
FailsAsRequired(input, r, most) ==
    /\ r.next \in {-1} \cup 1..Len(input)
    /\ FirstFinal(input) = 0 => r.next = -1
    /\ FirstFinal(input) > most => r.next = -1
    /\ r.next # -1 => r.next = FirstFinal(input)

\* C39: varint decoding signals failure (advance -1) for every input that
\* ends before a byte with the high bit clear, and for every input whose
\* continuation bytes run past 5 bytes (varint32) or 10 bytes (varint64); it
\* never reads beyond the end of the input and never reports success on a
\* strict prefix of a multi-byte encoding.
C39_DecodingFailures ==
    /\ (vi # <<>> /\ vi.mode = "input") =>
          /\ FailsAsRequired(vi.input, vi.r32, 5)
          /\ FailsAsRequired(vi.input, vi.r64, 10)
    /\ (vi # <<>> /\ vi.mode = "values" /\ vi.values # <<>>) =>
          \A k \in 0..(VarintLengthWide(vi.values[1]) - 1) :
              IF vi.width = 32
              THEN GetVarint32Idx(SubSeq(vi.buf, 1, k), 0).next = -1
              ELSE GetVarint64IdxWide(SubSeq(vi.buf, 1, k), 0).next = -1

\* ten continuation bytes and a final byte: too long for both decoders
C39_Witness ==
    /\ vi # <<>> /\ vi.mode = "input"
    /\ Len(vi.input) = 11 /\ FirstFinal(vi.input) = 11
    /\ vi.r32.next = -1 /\ vi.r64.next = -1

\* nine of the ten bytes of the encoding of 2^64 - 1 were refused
C39_WitnessTruncated ==
    /\ vi # <<>> /\ vi.mode = "values" /\ vi.width = 64
    /\ vi.values # <<>> /\ vi.values[1] = 0..63
    /\ GetVarint64IdxWide(SubSeq(vi.buf, 1, 9), 0).next = -1

(***************************************************************************)
(* util/crc32c.rs: mask and unmask.  A u32 is kept as its 16-bit halves    *)
(* <<hi, lo>>.  `+` and `-` on u32 are checked in a build with overflow    *)
(* checks (the default of a debug build, in which the tests run) and wrap  *)
(* in a build without them (the default of a release build): the build is  *)
(* a choice made once, and an operation whose result leaves 32 bits panics *)
(* in the one and wraps in the other.                                      *)
(***************************************************************************)
\* MASK_DELTA: 0xa282ead8
MASK_DELTA == <<41602, 60120>>

\* the 16-bit halves the crcs are made of
CrcHalves == {0, 1, 2, 5413, 23932, 23933, 32767, 32768, 41601, 41602, 60120, 65535}

\* `crc >> 15 | crc << 17`
RotateRight15(w) ==
    LET low == w[1] * 2 + w[2] \div 32768 IN
    <<(low \div 65536 + (w[2] % 32768) * 2) % 65536, low % 65536>>

\* `rot >> 17 | rot << 15`
RotateLeft15(w) ==
    <<(w[1] % 2) * 32768 + w[2] \div 2, (w[2] % 2) * 32768 + w[1] \div 2>>

\* a + b leaves 32 bits
AddOverflows(a, b) == a[1] + b[1] + (a[2] + b[2]) \div 65536 >= 65536

\* a + b modulo 2^32
WrappingAdd(a, b) ==
    <<(a[1] + b[1] + (a[2] + b[2]) \div 65536) % 65536, (a[2] + b[2]) % 65536>>

\* a - b is below 0
SubUnderflows(a, b) == a[1] < b[1] \/ (a[1] = b[1] /\ a[2] < b[2])

\* a - b modulo 2^32
WrappingSub(a, b) ==
    LET borrow == IF a[2] < b[2] THEN 1 ELSE 0 IN
    <<(a[1] - b[1] - borrow + 65536) % 65536, (a[2] - b[2] + 65536) % 65536>>

\* what `+` or `-` returns in a build: the wrapped result, or a panic when
\* the exact result leaves 32 bits and the build checks for it
Outcome(checks, leaves, wrapped) ==
    IF checks /\ leaves THEN [panic |-> TRUE, value |-> <<>>]
    ELSE [panic |-> FALSE, value |-> wrapped]

\* mask: (crc >> 15 | crc << 17) + MASK_DELTA
MaskOutcome(checks, crc) ==
    Outcome(checks, AddOverflows(RotateRight15(crc), MASK_DELTA),
            WrappingAdd(RotateRight15(crc), MASK_DELTA))

\* unmask: rot = masked_crc - MASK_DELTA; rot >> 17 | rot << 15
UnmaskOutcome(checks, masked_crc) ==
    Outcome(checks, SubUnderflows(masked_crc, MASK_DELTA),
            RotateLeft15(WrappingSub(masked_crc, MASK_DELTA)))

\* a crc to mask and unmask again, or a masked crc as read from a log file to
\* unmask, in a build with or without overflow checks
MkInit ==
    /\ \E hi \in CrcHalves, lo \in CrcHalves, checks \in BOOLEAN :
         \/ mk = [pc |-> "mask", overflow_checks |-> checks, crc |-> <<hi, lo>>,
                  masked |-> <<>>, unmasked |-> <<>>, panic |-> FALSE]
         \/ mk = [pc |-> "unmask", overflow_checks |-> checks, crc |-> <<>>,
                  masked |-> <<hi, lo>>, unmasked |-> <<>>, panic |-> FALSE]
    /\ vi = <<>> /\ rng = <<>> /\ odb = <<>>
    /\ SkipListUnused /\ MemTableUnused /\ DbUnused /\ BoundaryUnused
    /\ FindFileUnused /\ VersionEditUnused /\ LogUnused /\ CompareUnused
    /\ VersionSetUnused

\* mask(crc)
MkMask ==
    /\ mk # <<>> /\ mk.pc = "mask"
    /\ LET o == MaskOutcome(mk.overflow_checks, mk.crc) IN
       mk' = IF o.panic THEN [mk EXCEPT !.pc = "done", !.panic = TRUE]
             ELSE [mk EXCEPT !.pc = "unmask", !.masked = o.value]
    /\ UNCHANGED <<vi, rng, odb, slVars, memVars, dbVars, bndVars, ffVars, veVars, lgVars, ikVars, vsVars>>

\* unmask(masked_crc)
MkUnmask ==
    /\ mk # <<>> /\ mk.pc = "unmask"
    /\ LET o == UnmaskOutcome(mk.overflow_checks, mk.masked) IN
       mk' = IF o.panic THEN [mk EXCEPT !.pc = "done", !.panic = TRUE]
             ELSE [mk EXCEPT !.pc = "done", !.unmasked = o.value]
    /\ UNCHANGED <<vi, rng, odb, slVars, memVars, dbVars, bndVars, ffVars, veVars, lgVars, ikVars, vsVars>>

MkNext == MkMask \/ MkUnmask

SpecMask == MkInit /\ [][MkNext]_vars

\* C32: for every 32-bit c, mask(c) is (rotate_right(c, 15) + 0xa282ead8)
\* modulo 2^32 and unmask(mask(c)) is c: the addition of mask and the
\* subtraction of unmask wrap around and never fail.
C32_MaskWrapsAndInverts ==
    mk # <<>> =>
        /\ ~ mk.panic
        /\ (mk.crc # <<>> /\ mk.pc # "mask") =>
               mk.masked = WrappingAdd(RotateRight15(mk.crc), MASK_DELTA)
        /\ (mk.crc # <<>> /\ mk.pc = "done") => mk.unmasked = mk.crc
        /\ (mk.crc = <<>> /\ mk.pc = "done") =>
               mk.unmasked = RotateLeft15(WrappingSub(mk.masked, MASK_DELTA))

(***************************************************************************)
(* util/random.rs: Random::new and Random::next, computed as the code      *)
(* computes them.  A u32 argument is <<bit 31, bits 0..30>>; the u64       *)
(* product seed_ * A is formed from the 16-bit halves of seed_ and kept as *)
(* product >> 31 and product & M.                                          *)
(***************************************************************************)
MaxNextCalls == 4

M == 2147483647

A == 16807

\* a Random::new that lets M through
RandomNew_KeepsM(s) ==
    LET seed_ == s[2] IN
    IF seed_ = 0 THEN 1 ELSE seed_

\* Random::new, lines 13-20: s & 0x7fff_ffff, then 0 and M become 1
RandomNew(s) ==
    LET seed_ == s[2] IN
    IF seed_ = 0 \/ seed_ = M THEN 1 ELSE seed_

\* next, line 30: product = seed_ as u64 * A for seed_ < 2^31, as its two
\* parts product >> 31 and product & M.  With seed_ = a * 2^16 + b the
\* product is t * 2^16 + (b * A) % 2^16 for t = a * A + (b * A) \div 2^16.
ProductParts(seed_) ==
    LET a  == seed_ \div 65536
        b  == seed_ % 65536
        p0 == b * A
        t  == a * A + p0 \div 65536
    IN  [high |-> t \div 32768, low |-> (t % 32768) * 65536 + (p0 % 65536)]

\* next, lines 35-42: the sum of the two parts as a u32, less M when it is
\* greater than M; `reduced` tells whether the subtraction ran
RandomNextFold(seed_) ==
    LET p == ProductParts(seed_) IN
    IF p.low > M - p.high
    THEN [seed_ |-> p.low - (M - p.high), reduced |-> TRUE]
    ELSE [seed_ |-> p.low + p.high, reduced |-> FALSE]

\* the seeds: 0, the small ones, 0xdeadbeef of the skip list, a state whose
\* folded product exceeds M, the neighbours of 2^31 and 99 values spread
\* over 1..M, each with bit 31 clear and set
RandomSeeds ==
    {<<top, low>> : top \in {0, 1},
                    low \in {0, 1, 2, 301, 16807, 65535, 65536, 127773, 127774,
                             1073741824, 1588444911, 2044498473, M - 1, M}
                             \cup {i * 21474837 : i \in 1..99}}

RngInit ==
    /\ \E s \in RandomSeeds :
         rng = [pc |-> "new", s |-> s, seed_ |-> 0, states |-> <<>>,
                returned |-> <<>>, reduced |-> <<>>]
    /\ vi = <<>> /\ mk = <<>> /\ odb = <<>>
    /\ SkipListUnused /\ MemTableUnused /\ DbUnused /\ BoundaryUnused
    /\ FindFileUnused /\ VersionEditUnused /\ LogUnused /\ CompareUnused
    /\ VersionSetUnused

\* Random::new(s)
RngNew ==
    /\ rng # <<>> /\ rng.pc = "new"
    /\ rng' = [rng EXCEPT !.pc = "next", !.seed_ = RandomNew(rng.s)]
    /\ UNCHANGED <<vi, mk, odb, slVars, memVars, dbVars, bndVars, ffVars, veVars, lgVars, ikVars, vsVars>>

\* rnd.next(); the state before the call and the value returned are noted
RngNextCall ==
    /\ rng # <<>> /\ rng.pc = "next"
    /\ Len(rng.returned) < MaxNextCalls
    /\ LET r == RandomNextFold(rng.seed_) IN
       rng' = [rng EXCEPT !.seed_ = r.seed_,
                          !.states = Append(@, rng.seed_),
                          !.returned = Append(@, r.seed_),
                          !.reduced = Append(@, r.reduced)]
    /\ UNCHANGED <<vi, mk, odb, slVars, memVars, dbVars, bndVars, ffVars, veVars, lgVars, ikVars, vsVars>>

RngNext == RngNew \/ RngNextCall

SpecRandom == RngInit /\ [][RngNext]_vars

\* C40: for every 32-bit seed s, Random::new(s) sets the state to a value in
\* 1..M-1 with M = 2^31 - 1 (0 and M are replaced by 1 after masking with
\* 0x7fffffff), and after any number of next() calls the state stays in
\* 1..M-1 and each next() returns (16807 * previous state) mod M without any
\* intermediate 64-bit or 32-bit overflow: the product stays below 2^47, so
\* its high part below 2^16, the sum of the parts below 2^32, and M is
\* subtracted only from a greater sum.
C40_RandomStaysInRange ==
    (rng # <<>> /\ rng.pc = "next") =>
        /\ rng.seed_ \in 1..(M - 1)
        /\ rng.states = <<>> =>
             rng.seed_ = (IF rng.s[2] \in {0, M} THEN 1 ELSE rng.s[2])
        /\ \A i \in 1..Len(rng.returned) :
             /\ rng.states[i] \in 1..(M - 1)
             /\ rng.returned[i] \in 1..(M - 1)
             /\ rng.returned[i] = RandomNext(rng.states[i])
             /\ \A p \in {ProductParts(rng.states[i])} :
                  /\ p.high \in 0..65535 /\ p.low \in 0..M
                  /\ rng.reduced[i] <=> p.low > M - p.high
                  /\ rng.reduced[i] => rng.returned[i] = p.low - (M - p.high)
        /\ rng.returned # <<>> => rng.seed_ = rng.returned[Len(rng.returned)]

\* Random::new(0xffffffff) started at 1 and next() returned 16807, 282475249,
\* 1622650073 and 984943658
C40_Witness ==
    /\ rng # <<>> /\ rng.s = <<1, M>>
    /\ rng.returned = <<16807, 282475249, 1622650073, 984943658>>

\* the fold of the product exceeded M and M was subtracted: next() on
\* 2044498473 returned 64
C40_WitnessReduced ==
    /\ rng # <<>> /\ rng.returned # <<>>
    /\ rng.states[1] = 2044498473 /\ rng.returned[1] = 64 /\ rng.reduced[1]

====
